---- MODULE Spec2Model ----
(***************************************************************************)
(* AusTreeCalc statics engine (tools/aus_tree_calc_standalone.py).         *)
(*                                                                         *)
(* The engine computes on Python floats.  A float is modelled as a binary  *)
(* floating-point number with a Prec-bit significand and round-to-nearest- *)
(* even after every operation, exactly as IEEE-754 binary64 does with 53   *)
(* bits; a decimal literal of the source (0.8, 0.99, 1e6, math.pi) is the  *)
(* nearest such number.  Exponents are unbounded: magnitudes at which a    *)
(* binary64 overflows or underflows are outside the model.                 *)
(*                                                                         *)
(* A float is a record [inf, m, e]: m * 2^e with m = 0 (and e = 0) or      *)
(* 2^(Prec-1) <= |m| < 2^Prec when not inf; when inf, +infinity if m = 0   *)
(* and nan (which only float("nan") produces) if m # 0.                    *)
(* An optional float (float | None) is a sequence: <<>> or <<x>>.          *)
(*                                                                         *)
(* Spec runs the engine's functions on a scenario in the order of main.    *)
(* Collect runs the two input collectors, the prompts of main and the form *)
(* of tools/aus_tree_calc_gui.py, on texts typed by the user: a text is a  *)
(* sequence of characters, parsed as float() parses it and formatted as    *)
(* an f-string formats a float.                                            *)
(***************************************************************************)
EXTENDS Integers, Sequences, FiniteSets, TLC

\* Significand bits of the modelled float (binary64 has 53): enough to tell
\* apart the section moduli of a 90 % and a 100 % residual wall, which differ
\* by one part in 10^4.
Prec == 17

----------------------------------------------------------------------------
\* Floating-point arithmetic

Abs(n) == IF n < 0 THEN -n ELSE n
Sgn(n) == IF n < 0 THEN -1 ELSE IF n > 0 THEN 1 ELSE 0

RECURSIVE BitLen(_)
BitLen(n) == IF n = 0 THEN 0 ELSE 1 + BitLen(n \div 2)

Zero == [inf |-> FALSE, m |-> 0, e |-> 0]
Inf == [inf |-> TRUE, m |-> 0, e |-> 0]
NaN == [inf |-> TRUE, m |-> 1, e |-> 0]
IsNaN(a) == a.inf /\ a.m # 0
None == <<>>
Some(x) == <<x>>

\* The float nearest to s * (n + d) * 2^e, where n >= 0 is an integer of L
\* bits and 0 < d < 1 when sticky, d = 0 otherwise (sticky needs L > Prec).
RoundL(s, n, e, sticky, L) ==
    IF n = 0 THEN Zero
    ELSE IF L <= Prec THEN [inf |-> FALSE, m |-> s * n * 2^(Prec - L), e |-> e - (Prec - L)]
    ELSE LET sh == L - Prec
             q == n \div 2^sh
             r == n % 2^sh
             half == 2^(sh - 1)
             up == r > half \/ (r = half /\ (sticky \/ q % 2 = 1))
             q2 == IF up THEN q + 1 ELSE q
         IN  IF q2 = 2^Prec
             THEN [inf |-> FALSE, m |-> s * 2^(Prec - 1), e |-> e + sh + 1]
             ELSE [inf |-> FALSE, m |-> s * q2, e |-> e + sh]

Round(s, n, e, sticky) == RoundL(s, n, e, sticky, BitLen(n))

\* float(n) for an integer literal n.
FromInt(n) == Round(Sgn(n), Abs(n), 0, FALSE)

\* math.isfinite(a)
IsFinite(a) == ~a.inf

\* -1, 0, 1 as a < b, a = b, a > b.
Cmp(a, b) ==
    IF a.inf /\ b.inf THEN 0
    ELSE IF a.inf THEN 1
    ELSE IF b.inf THEN -1
    ELSE IF Sgn(a.m) # Sgn(b.m) THEN (IF Sgn(a.m) < Sgn(b.m) THEN -1 ELSE 1)
    ELSE IF a.m = 0 THEN 0
    ELSE IF a.e # b.e THEN (IF (a.e < b.e) = (a.m > 0) THEN -1 ELSE 1)
    ELSE IF a.m < b.m THEN -1 ELSE IF a.m > b.m THEN 1 ELSE 0

\* A comparison with nan is false.
Ordered(a, b) == ~IsNaN(a) /\ ~IsNaN(b)

Lt(a, b) == Ordered(a, b) /\ Cmp(a, b) < 0
Le(a, b) == Ordered(a, b) /\ Cmp(a, b) <= 0
Gt(a, b) == Ordered(a, b) /\ Cmp(a, b) > 0
Ge(a, b) == Ordered(a, b) /\ Cmp(a, b) >= 0

\* Python's max(a, b) and min(a, b): the first argument unless the second is
\* strictly larger (smaller).
FMax(a, b) == IF Gt(b, a) THEN b ELSE a
FMin(a, b) == IF Lt(b, a) THEN b ELSE a

FNeg(a) == [a EXCEPT !.m = -a.m]

\* The float nearest s * (n + d) * 2^e as RoundL gives it, for n of L or
\* L - 1 bits.
RoundTop(s, n, e, sticky, L) ==
    RoundL(s, n, e, sticky, IF n >= 2^(L - 1) THEN L ELSE L - 1)

\* Half the significand's width: the width of the low limb of a product.
Limb == Prec \div 2

\* The float nearest s * x * y * 2^e for significands x, y: the product is
\* formed in two limbs, x * (y div 2^Limb) and x * (y mod 2^Limb).
MulRound(s, x, y1, y0, e) ==
    RoundTop(s, x * y1 + (x * y0) \div 2^Limb, e + Limb, (x * y0) % 2^Limb # 0,
             2 * Prec - Limb)

FMul(a, b) ==
    IF IsNaN(a) \/ IsNaN(b) THEN NaN
    ELSE IF a.m = 0 \/ b.m = 0 THEN Zero
    ELSE MulRound(Sgn(a.m) * Sgn(b.m), Abs(a.m), Abs(b.m) \div 2^Limb,
                  Abs(b.m) % 2^Limb, a.e + b.e)

\* The quotient of a division is formed to Prec + 1 bits in two steps of
\* long division, of DivStep and DivRest bits.
DivStep == IF Prec > 14 THEN 30 - Prec ELSE Prec + 1
DivRest == Prec + 1 - DivStep

\* The second step: q1 and r1 are the quotient and the remainder of
\* x * 2^DivStep by y.
DivRound(s, q1, r1, y, e) ==
    RoundTop(s, q1 * 2^DivRest + (r1 * 2^DivRest) \div y, e - (Prec + 1),
             (r1 * 2^DivRest) % y # 0, Prec + 2)

\* a / b for b # 0 (Python raises ZeroDivisionError when b = 0: the callers
\* test for it).
FDiv(a, b) ==
    IF IsNaN(a) \/ IsNaN(b) THEN NaN
    ELSE IF a.m = 0 THEN Zero
    ELSE DivRound(Sgn(a.m) * Sgn(b.m), (Abs(a.m) * 2^DivStep) \div Abs(b.m),
                  (Abs(a.m) * 2^DivStep) % Abs(b.m), Abs(b.m), a.e - b.e)

\* The float nearest s * (n + d) * 2^e for an integer n of either sign
\* (0 < d < 1 when lost, d = 0 otherwise; n < 0 only when not lost).
RoundSigned(s, n, e, lost) ==
    IF n >= 0 THEN Round(s, n, e, lost) ELSE Round(-s, -n, e, FALSE)

\* a + b for nonzero a, b with a.e >= b.e, b's significand shifted right by
\* t bits and a's left by s bits (s + t = a.e - b.e).
AddAligned(a, b, s, t) ==
    LET big == Abs(a.m) * 2^s
        bq == IF t >= Prec THEN 0 ELSE Abs(b.m) \div 2^t
        lost == IF t >= Prec THEN TRUE ELSE Abs(b.m) % 2^t # 0
    IN  RoundSigned(Sgn(a.m),
                    IF Sgn(a.m) = Sgn(b.m) THEN big + bq
                    ELSE IF lost THEN big - bq - 1 ELSE big - bq,
                    b.e + t, lost)

\* a + b, with a the operand of the larger exponent.
AddOrdered(a, b) ==
    IF a.e - b.e <= 3
    THEN AddAligned(a, b, a.e - b.e, 0)
    ELSE AddAligned(a, b, 3, a.e - b.e - 3)

FAdd(a, b) ==
    IF IsNaN(a) \/ IsNaN(b) THEN NaN
    ELSE IF a.m = 0 THEN b
    ELSE IF b.m = 0 THEN a
    ELSE AddOrdered(IF a.e >= b.e THEN a ELSE b, IF a.e >= b.e THEN b ELSE a)

FSub(a, b) == FAdd(a, FNeg(b))

\* Half the width of the radicand of a square root: a root has two digits
\* of that width.
Digit == (Prec + 1) \div 2

\* mid * mid against n * 2^(2 * Digit), for mid = u * 2^Digit + v: the square
\* is u * u * 2^(2 * Digit) + low with low = 2 * u * v * 2^Digit + v * v.
SqLow(u, v) == 2 * u * v * 2^Digit + v * v
SqHigh(u, v) == u * u + SqLow(u, v) \div 2^(2 * Digit)
SqExact(u, v, n) == SqHigh(u, v) = n /\ SqLow(u, v) % 2^(2 * Digit) = 0
SqAtMost(u, v, n) == SqHigh(u, v) < n \/ SqExact(u, v, n)

\* floor(sqrt(n * 2^(2 * Digit))) by bisection on lo <= root < hi.
RECURSIVE ISqrtIn(_, _, _)
ISqrtIn(n, lo, hi) ==
    IF hi - lo <= 1 THEN lo
    ELSE IF SqAtMost(((lo + hi) \div 2) \div 2^Digit, ((lo + hi) \div 2) % 2^Digit, n)
         THEN ISqrtIn(n, (lo + hi) \div 2, hi)
         ELSE ISqrtIn(n, lo, (lo + hi) \div 2)

\* The float nearest sqrt(n * 2^(2 * Digit)) * 2^e, r being the floor of the
\* root.
SqrtRound(r, n, e) ==
    RoundL(1, r, e, ~SqExact(r \div 2^Digit, r % 2^Digit, n), Prec + 1)

\* math.sqrt(a) for a finite a > 0.
SqrtShift(a) == IF (a.e - (Prec + 1)) % 2 = 0 THEN Prec + 1 ELSE Prec + 2
FSqrt(a) ==
    IF IsNaN(a) THEN NaN
    ELSE IF a.m = 0 THEN Zero
    ELSE SqrtRound(ISqrtIn(a.m * 2^(SqrtShift(a) - 2 * Digit), 2^Prec, 2^(Prec + 1)),
                   a.m * 2^(SqrtShift(a) - 2 * Digit), (a.e - SqrtShift(a)) \div 2)

\* a ** 3 and a ** 4 (libm pow), as the float nearest the exact power.
\* The exact power is formed in limbs of Digit bits, m = m1 * 2^Digit + m0.
\* The four limbs of m * m, lowest first:
Sq0(m0, m1) == (m0 * m0) % 2^Digit
SqCarry1(m0, m1) == 2 * m0 * m1 + (m0 * m0) \div 2^Digit
Sq1(m0, m1) == SqCarry1(m0, m1) % 2^Digit
SqCarry2(m0, m1) == m1 * m1 + SqCarry1(m0, m1) \div 2^Digit
Sq2(m0, m1) == SqCarry2(m0, m1) % 2^Digit
Sq3(m0, m1) == SqCarry2(m0, m1) \div 2^Digit

\* One step of carrying through the low columns of a product: acc is twice
\* the carry into column c, plus 1 when a lower limb is not zero.
CarryStep(acc, c) ==
    2 * ((c + acc \div 2) \div 2^Digit)
    + (IF acc % 2 = 1 \/ (c + acc \div 2) % 2^Digit # 0 THEN 1 ELSE 0)

\* The float nearest s * (high + d) * 2^e, high the columns above the low
\* ones and acc what the low ones carry.
RoundCarried(s, high, acc, e) == Round(s, high + acc \div 2, e, acc % 2 = 1)

\* (t3, t2, t1, t0) * (m1, m0): three low columns, two high.
Cubed(s, t0, t1, t2, t3, m0, m1, e) ==
    RoundCarried(s, (t3 * m0 + t2 * m1) + (t3 * m1) * 2^Digit,
                 CarryStep(CarryStep(CarryStep(0, t0 * m0), t1 * m0 + t0 * m1),
                           t2 * m0 + t1 * m1),
                 e + 3 * Digit)

\* (t3, t2, t1, t0) squared: five low columns, two high.
Fourth(t0, t1, t2, t3, e) ==
    RoundCarried(1, 2 * t2 * t3 + (t3 * t3) * 2^Digit,
                 CarryStep(CarryStep(CarryStep(CarryStep(CarryStep(0, t0 * t0),
                     2 * t0 * t1), 2 * t0 * t2 + t1 * t1), 2 * t0 * t3 + 2 * t1 * t2),
                     2 * t1 * t3 + t2 * t2),
                 e + 5 * Digit)

PowLimbs3(s, m0, m1, e) ==
    Cubed(s, Sq0(m0, m1), Sq1(m0, m1), Sq2(m0, m1), Sq3(m0, m1), m0, m1, e)

PowLimbs4(m0, m1, e) ==
    Fourth(Sq0(m0, m1), Sq1(m0, m1), Sq2(m0, m1), Sq3(m0, m1), e)

FPow3(a) ==
    IF IsNaN(a) THEN NaN
    ELSE IF a.m = 0 THEN Zero
    ELSE PowLimbs3(Sgn(a.m), Abs(a.m) % 2^Digit, Abs(a.m) \div 2^Digit, 3 * a.e)

FPow4(a) ==
    IF IsNaN(a) THEN NaN
    ELSE IF a.m = 0 THEN Zero
    ELSE PowLimbs4(Abs(a.m) % 2^Digit, Abs(a.m) \div 2^Digit, 4 * a.e)

\* The float nearest the decimal literal n/d (n, d small positive integers).
Lit(n, d) == FDiv(FromInt(n), FromInt(d))

\* The largest float below a finite a > 0.
Pred(a) ==
    IF a.m = 2^(Prec - 1)
    THEN [inf |-> FALSE, m |-> 2^Prec - 1, e |-> a.e - 1]
    ELSE [inf |-> FALSE, m |-> a.m - 1, e |-> a.e]

----------------------------------------------------------------------------
\* Constants and reference data

\* The float literals of the source.
One == FromInt(1)
Two == FromInt(2)
Hundred == FromInt(100)
ThirtyTwo == FromInt(32)
Million == FromInt(1000000)
Half == Lit(1, 2)
CavityClamp == Lit(99, 100)
LeverArm == Lit(66, 100)
FullnessMin == Lit(1, 10)
Penalty08 == Lit(8, 10)
Penalty09 == Lit(9, 10)
KMin == Lit(3, 10)

AIR_DENSITY == Lit(12, 10)

\* math.pi: the float nearest pi (355/113 rounds to the same float for
\* every significand width the model is run with).
Pi == Lit(355, 113)

Preset(id, fb, drag, shape, fullness) ==
    [id |-> id, fb_green_mpa |-> fb, drag_coefficient |-> drag,
     crown_shape_factor |-> shape, default_fullness |-> fullness]

SPECIES_PRESETS ==
    << Preset("euc_high", FromInt(50), Lit(25, 100), Lit(7, 10), Lit(9, 10)),
       Preset("euc_typical", FromInt(35), Lit(25, 100), Lit(7, 10), Lit(9, 10)),
       Preset("broadleaf_deciduous", FromInt(28), Lit(30, 100), Lit(75, 100), Lit(95, 100)),
       Preset("conifer_softwood", FromInt(20), Lit(35, 100), Lit(8, 10), FromInt(1)),
       Preset("araucaria", FromInt(24), Lit(30, 100), Lit(7, 10), Lit(95, 100)),
       Preset("unknown_hardwood", FromInt(25), Lit(28, 100), Lit(7, 10), Lit(9, 10)),
       Preset("unknown_softwood", FromInt(18), Lit(33, 100), Lit(75, 100), Lit(95, 100)) >>

----------------------------------------------------------------------------
\* compute_defect_strength_factor

\* if flag: k *= penalty
Penalise(flag, k, penalty) == IF flag THEN FMul(k, penalty) ELSE k

\* Mutant of DefectProduct: cracks penalised 0.8 for 0.9.
DefectProductCracks08(bracket_fungi, cavity_decay, cracks, basal_decay, union) ==
    Penalise(union,
        Penalise(basal_decay,
            Penalise(cracks,
                Penalise(cavity_decay,
                    Penalise(bracket_fungi, One, Penalty08),
                    Penalty08),
                Penalty08),
            Penalty08),
        Penalty09)

\* k after the five conditional multiplications, in the order of the
\* source (bracket fungi first, union last), before the clamp.
DefectProduct(bracket_fungi, cavity_decay, cracks, basal_decay, union) ==
    Penalise(union,
        Penalise(basal_decay,
            Penalise(cracks,
                Penalise(cavity_decay,
                    Penalise(bracket_fungi, One, Penalty08),
                    Penalty08),
                Penalty09),
            Penalty08),
        Penalty09)

\* if k < lo: k = lo
RaiseTo(k, lo) == IF Lt(k, lo) THEN lo ELSE k

\* if k > hi: k = hi
LowerTo(k, hi) == IF Gt(k, hi) THEN hi ELSE k

\* Mutant of DefectClamp: the ceiling typed 0.1 for 1.0.
DefectClampCeilingTypo(k) == LowerTo(RaiseTo(k, KMin), FullnessMin)

\* Mutant of DefectClamp: the floor typed 0.5 for 0.3.
DefectClampFloorHalf(k) == LowerTo(RaiseTo(k, Half), One)

\* if k < 0.3: k = 0.3; if k > 1.0: k = 1.0
DefectClamp(k) == LowerTo(RaiseTo(k, KMin), One)

compute_defect_strength_factor(bracket_fungi, cavity_decay, cracks, basal_decay, union) ==
    DefectClamp(DefectProduct(bracket_fungi, cavity_decay, cracks, basal_decay, union))

----------------------------------------------------------------------------
\* calculate_single

\* A CalcResult; raised marks a call that ended in ZeroDivisionError
\* instead of returning.
CalcResult(sf, sigma_mpa, q, wind_force, m_wind) ==
    [raised |-> FALSE, safety_factor |-> sf, bending_stress_mpa |-> sigma_mpa,
     q_pa |-> q, wind_force_n |-> wind_force, bending_moment_nm |-> m_wind]

Raised ==
    [raised |-> TRUE, safety_factor |-> Zero, bending_stress_mpa |-> Zero,
     q_pa |-> Zero, wind_force_n |-> Zero, bending_moment_nm |-> Zero]

\* d_inner of lines 217-222: the cavity in metres, cavities >= dbh_cm
\* replaced by 0.99 * dbh_cm; 0.0 without a cavity.
InnerDiameter(dbh_cm, cavity_inner_cm) ==
    IF cavity_inner_cm # None /\ Gt(cavity_inner_cm[1], Zero)
    THEN LET cav == IF Ge(cavity_inner_cm[1], dbh_cm)
                    THEN FMul(dbh_cm, CavityClamp)
                    ELSE cavity_inner_cm[1]
         IN  FDiv(cav, Hundred)
    ELSE Zero

\* Mutant of DynamicPressure: linear in V.
DynamicPressureLinear(site_factor, V) ==
    FMul(FMul(FMul(site_factor, Half), AIR_DENSITY), V)

\* q = site_factor * 0.5 * AIR_DENSITY * V * V, multiplied left to right.
DynamicPressure(site_factor, V) ==
    FMul(FMul(FMul(FMul(site_factor, Half), AIR_DENSITY), V), V)

\* Mutant of EffectiveFullness: the override used as supplied.
EffectiveFullnessUnclamped(species, fullness_override) ==
    IF fullness_override # None THEN fullness_override[1] ELSE species.default_fullness

\* Mutant of EffectiveFullness: a full crown unless overridden.
EffectiveFullnessNoDefault(species, fullness_override) ==
    LET fullness_base == IF fullness_override # None THEN fullness_override[1] ELSE One
    IN  FMax(FullnessMin, FMin(One, fullness_base))

\* fullness = max(0.1, min(1.0, fullness_base))
EffectiveFullness(species, fullness_override) ==
    LET fullness_base == IF fullness_override # None THEN fullness_override[1]
                         ELSE species.default_fullness
    IN  FMax(FullnessMin, FMin(One, fullness_base))

\* a / b, <<>> when b is zero (ZeroDivisionError).
Quotient(a, b) == IF b.m = 0 THEN None ELSE Some(FDiv(a, b))

\* Mutant of SectionModulus: the hollow formula's difference reversed.
SectionModulusReversed(d_outer, d_inner) ==
    IF Gt(d_inner, Zero)
    THEN Quotient(FMul(Pi, FSub(FPow4(d_inner), FPow4(d_outer))), FMul(ThirtyTwo, d_outer))
    ELSE Some(FDiv(FMul(Pi, FPow3(d_outer)), ThirtyTwo))

\* Mutant of SectionModulus: the solid section's modulus for every trunk.
SectionModulusSolid(d_outer, d_inner) ==
    Some(FDiv(FMul(Pi, FPow3(d_outer)), ThirtyTwo))

\* The section modulus W; the hollow formula divides by 32.0 * d_outer.
\* <<>> when that division is by zero.
SectionModulus(d_outer, d_inner) ==
    IF Gt(d_inner, Zero)
    THEN Quotient(FMul(Pi, FSub(FPow4(d_outer), FPow4(d_inner))), FMul(ThirtyTwo, d_outer))
    ELSE Some(FDiv(FMul(Pi, FPow3(d_outer)), ThirtyTwo))

\* a_plan = math.pi * radius_crown * radius_crown
PlanArea(radius_crown) == FMul(FMul(Pi, radius_crown), radius_crown)

\* area = a_plan * species.crown_shape_factor * fullness
CrownArea(species, crown_diameter_m, fullness_override) ==
    FMul(FMul(PlanArea(FDiv(crown_diameter_m, Two)), species.crown_shape_factor),
         EffectiveFullness(species, fullness_override))

\* Mutant of ResultFromStress: the division without the test for a zero
\* stress (ZeroDivisionError).
ResultFromStressUnguarded(species, k_defect, q, wind_force, m_wind, sigma_mpa) ==
    IF sigma_mpa.m = 0 THEN Raised
    ELSE CalcResult(FDiv(FMul(species.fb_green_mpa, k_defect), sigma_mpa),
                    sigma_mpa, q, wind_force, m_wind)

\* Lines 246-255: the safety factor and the CalcResult, from the stress.
ResultFromStress(species, k_defect, q, wind_force, m_wind, sigma_mpa) ==
    CalcResult(IF Gt(sigma_mpa, Zero)
               THEN FDiv(FMul(species.fb_green_mpa, k_defect), sigma_mpa)
               ELSE Inf,
               sigma_mpa, q, wind_force, m_wind)

\* Lines 243-244: sigma_pa = m_wind / W raises ZeroDivisionError when W is
\* zero (or when W itself could not be computed); sigma_mpa = sigma_pa / 1e6.
ResultFromMoment(species, k_defect, q, wind_force, m_wind, W) ==
    IF W = None \/ W[1].m = 0 THEN Raised
    ELSE ResultFromStress(species, k_defect, q, wind_force, m_wind,
                          FDiv(FDiv(m_wind, W[1]), Million))

\* Line 236: m_wind = wind_force * h_eff.
ResultFromForce(species, k_defect, q, wind_force, h_eff, W) ==
    ResultFromMoment(species, k_defect, q, wind_force, FMul(wind_force, h_eff), W)

\* Line 234: wind_force = q * species.drag_coefficient * area.
ResultFromPressure(species, k_defect, q, area, h_eff, W) ==
    ResultFromForce(species, k_defect, q, FMul(FMul(q, species.drag_coefficient), area),
                    h_eff, W)

calculate_single(species, dbh_cm, height_m, crown_diameter_m, design_wind_ms, cavity_inner_cm, fullness_override, site_factor, k_defect) ==
    ResultFromPressure(species, k_defect,
        DynamicPressure(site_factor, design_wind_ms),
        CrownArea(species, crown_diameter_m, fullness_override),
        FMul(LeverArm, height_m),
        SectionModulus(FDiv(dbh_cm, Hundred), InnerDiameter(dbh_cm, cavity_inner_cm)))

----------------------------------------------------------------------------
\* estimate_wind_to_failure, residual_wall_fraction

\* Mutant of WindToFailureFrom: the square root forgotten.
WindToFailureNoSqrt(design_wind_ms, ref) ==
    IF ref.raised \/ ~IsFinite(ref.safety_factor) \/ Le(ref.safety_factor, Zero)
    THEN None
    ELSE Some(FMul(design_wind_ms, ref.safety_factor))

\* Lines 280-283: None when the reference result has no finite positive SF
\* (or the reference call raised), else design_wind_ms * math.sqrt(sf).
WindToFailureFrom(design_wind_ms, ref) ==
    IF ref.raised \/ ~IsFinite(ref.safety_factor) \/ Le(ref.safety_factor, Zero)
    THEN None
    ELSE Some(FMul(design_wind_ms, FSqrt(ref.safety_factor)))

estimate_wind_to_failure(species, dbh_cm, height_m, crown_diameter_m, design_wind_ms, cavity_inner_cm, fullness_override, site_factor, k_defect) ==
    WindToFailureFrom(design_wind_ms,
        calculate_single(species, dbh_cm, height_m, crown_diameter_m, design_wind_ms,
                         cavity_inner_cm, fullness_override, site_factor, k_defect))

\* Mutant of WallFractionRaw: the cavity used as supplied.
WallFractionUnclamped(dbh_cm, cavity_inner_cm) ==
    FDiv(FSub(dbh_cm, cavity_inner_cm[1]), dbh_cm)

\* frac of line 294, before the final clamp.
WallFractionRaw(dbh_cm, cavity_inner_cm) ==
    LET cav == IF Ge(cavity_inner_cm[1], dbh_cm)
               THEN FMul(dbh_cm, CavityClamp)
               ELSE cavity_inner_cm[1]
    IN  FDiv(FSub(dbh_cm, cav), dbh_cm)

residual_wall_fraction(dbh_cm, cavity_inner_cm) ==
    IF Le(dbh_cm, Zero) THEN One
    ELSE IF cavity_inner_cm = None \/ Le(cavity_inner_cm[1], Zero) THEN One
    ELSE FMax(Zero, FMin(One, WallFractionRaw(dbh_cm, cavity_inner_cm)))

----------------------------------------------------------------------------
\* build_sf_vs_residual_wall_curve

rw_min == FromInt(20)
rw_max == FromInt(100)
RwSteps == 9

\* rw of sample i (0-based): rw_min + (rw_max - rw_min) * i / (steps - 1)
RwSample(i) ==
    FAdd(rw_min, FDiv(FMul(FSub(rw_max, rw_min), FromInt(i)), FromInt(RwSteps - 1)))

RwSamples == [i \in 1..RwSteps |-> RwSample(i - 1)]

\* Mutant of SimulatedCavity: the wall fraction taken for the cavity's.
SimulatedCavityOfWall(dbh_cm, rw) ==
    LET cav_cm == FMul(dbh_cm, FDiv(rw, Hundred))
    IN  IF Gt(cav_cm, Zero) THEN Some(cav_cm) ELSE None

\* The simulated cavity of a sample: dbh_cm * (1.0 - rw / 100.0), None
\* unless it is > 0.
SimulatedCavity(dbh_cm, rw) ==
    LET cav_cm == FMul(dbh_cm, FSub(One, FDiv(rw, Hundred)))
    IN  IF Gt(cav_cm, Zero) THEN Some(cav_cm) ELSE None

\* Lines 378-380: both values finite and 1.0 between them.
Brackets(y1, y2) ==
    /\ IsFinite(y1) /\ IsFinite(y2)
    /\ \/ Ge(y1, One) /\ Le(y2, One)
       \/ Le(y1, One) /\ Ge(y2, One)

\* Mutant of Interpolate: the chord's parameter taken from y2.
InterpolateFromY2(x1, x2, y1, y2) ==
    LET t == IF y2 # y1 THEN FDiv(FSub(One, y2), FSub(y2, y1)) ELSE Zero
    IN  FAdd(x1, FMul(FSub(x2, x1), t))

\* Lines 381-383: the percent at which the chord through (x1, y1), (x2, y2)
\* reaches 1.0.
Interpolate(x1, x2, y1, y2) ==
    LET t == IF y2 # y1 THEN FDiv(FSub(One, y1), FSub(y2, y1)) ELSE Zero
    IN  FAdd(x1, FMul(FSub(x2, x1), t))

\* Mutant of ClampCritical: clamped as a fraction, not a percent.
ClampCriticalAsFraction(x) == FMax(Lit(2, 10), FMin(One, x))

\* Line 384.
ClampCritical(x) == FMax(rw_min, FMin(rw_max, x))

\* The critical percent from the pair of samples i, i + 1.
CriticalAt(xs, ys, i) ==
    ClampCritical(Interpolate(xs[i], xs[i + 1], ys[i], ys[i + 1]))

\* The first of the pairs in hits (the loop breaks at it), None without one.
CriticalAmong(xs, ys, hits) ==
    IF hits = {} THEN None
    ELSE Some(CriticalAt(xs, ys, CHOOSE j \in hits : \A h \in hits : j <= h))

\* Lines 374-385: the first bracketing pair, interpolated and clamped.
CriticalRw(xs, ys) ==
    CriticalAmong(xs, ys, {i \in 1..(Len(xs) - 1) : Brackets(ys[i], ys[i + 1])})

\* Mutant of CriticalWall: the diameter of the sound wood, not the wall.
CriticalWallAsDiameter(dbh_cm, critical_rw) ==
    IF critical_rw = None THEN None
    ELSE Some(FMul(dbh_cm, FDiv(critical_rw[1], Hundred)))

\* Lines 387-389.
CriticalWall(dbh_cm, critical_rw) ==
    IF critical_rw = None THEN None
    ELSE Some(FDiv(FMul(dbh_cm, FDiv(critical_rw[1], Hundred)), Two))

\* What build_sf_vs_residual_wall_curve returns; raised marks a call ended
\* by calculate_single's ZeroDivisionError.
NoCurve ==
    [raised |-> TRUE, xs |-> <<>>, ys |-> <<>>, critical_rw |-> None,
     critical_wall_cm |-> None]

Curve(dbh_cm, xs, ys, critical_rw) ==
    [raised |-> FALSE, xs |-> xs, ys |-> ys, critical_rw |-> critical_rw,
     critical_wall_cm |-> CriticalWall(dbh_cm, critical_rw)]

\* Lines 374-391, from the samples xs and calculate_single's results rs.
CurveFromResults(dbh_cm, xs, rs) ==
    IF \E i \in 1..Len(rs) : rs[i].raised THEN NoCurve
    ELSE Curve(dbh_cm, xs, [i \in 1..Len(rs) |-> rs[i].safety_factor],
               CriticalRw(xs, [i \in 1..Len(rs) |-> rs[i].safety_factor]))

\* Lines 355-372: calculate_single at every sample of xs.
CurveOver(species, dbh_cm, height_m, crown_diameter_m, design_wind_ms, fullness_override, site_factor, k_defect, xs) ==
    CurveFromResults(dbh_cm, xs,
        [i \in 1..Len(xs) |->
            calculate_single(species, dbh_cm, height_m, crown_diameter_m,
                             design_wind_ms, SimulatedCavity(dbh_cm, xs[i]),
                             fullness_override, site_factor, k_defect)])

build_sf_vs_residual_wall_curve(species, dbh_cm, height_m, crown_diameter_m, design_wind_ms, fullness_override, site_factor, k_defect) ==
    CurveOver(species, dbh_cm, height_m, crown_diameter_m, design_wind_ms,
              fullness_override, site_factor, k_defect, RwSamples)

----------------------------------------------------------------------------
\* build_sf_vs_wind_curve, build_sf_vs_crown_reduction_curve

\* What the two builders return: the points (xs, ys); raised marks a call
\* ended by calculate_single's ZeroDivisionError.
NoPoints == [raised |-> TRUE, xs |-> <<>>, ys |-> <<>>]

Points(xs, ys) == [raised |-> FALSE, xs |-> xs, ys |-> ys]

\* xs.append(...); ys.append(res.safety_factor) over the samples xs, rs the
\* results of calculate_single at them.
PointsFromResults(xs, rs) ==
    IF \E i \in 1..Len(rs) : rs[i].raised THEN NoPoints
    ELSE Points(xs, [i \in 1..Len(rs) |-> rs[i].safety_factor])

Five == FromInt(5)
WindSteps == 12

\* min_v = max(5.0, design_wind_ms * 0.5)
WindMin(design_wind_ms) == FMax(Five, FMul(design_wind_ms, Half))

\* Mutant of Extends: the domain is never extended.
ExtendsNever(design_wind_ms, wind_to_failure) == FALSE

\* Lines 314-317, the test: a finite positive wind-to-failure whose 1.1-fold
\* exceeds design_wind_ms * 1.8.
Extends(design_wind_ms, wind_to_failure) ==
    /\ wind_to_failure # None
    /\ IsFinite(wind_to_failure[1])
    /\ Gt(wind_to_failure[1], Zero)
    /\ Gt(FMul(wind_to_failure[1], Lit(11, 10)), FMul(design_wind_ms, Lit(18, 10)))

\* Lines 313-317: max_v before the test for a degenerate domain.
WindMaxExtended(design_wind_ms, wind_to_failure) ==
    IF Extends(design_wind_ms, wind_to_failure)
    THEN FMul(wind_to_failure[1], Lit(11, 10))
    ELSE FMul(design_wind_ms, Lit(18, 10))

\* Lines 318-319: if max_v <= min_v: max_v = min_v + 5.0
WindMax(min_v, max_v) == IF Le(max_v, min_v) THEN FAdd(min_v, Five) ELSE max_v

\* Mutant of WindSample: the range divided by steps.
WindSampleOverSteps(min_v, max_v, i) ==
    FAdd(min_v, FDiv(FMul(FSub(max_v, min_v), FromInt(i)), FromInt(WindSteps)))

\* v of sample i (0-based): min_v + (max_v - min_v) * i / (steps - 1)
WindSample(min_v, max_v, i) ==
    FAdd(min_v, FDiv(FMul(FSub(max_v, min_v), FromInt(i)), FromInt(WindSteps - 1)))

WindSamples(min_v, max_v) == [i \in 1..WindSteps |-> WindSample(min_v, max_v, i - 1)]

\* Lines 323-337: calculate_single at every wind speed of xs.
WindCurveOver(species, dbh_cm, height_m, crown_diameter_m, cavity_inner_cm, fullness_override, site_factor, k_defect, xs) ==
    PointsFromResults(xs,
        [i \in 1..Len(xs) |->
            calculate_single(species, dbh_cm, height_m, crown_diameter_m, xs[i],
                             cavity_inner_cm, fullness_override, site_factor, k_defect)])

\* Lines 318-337, from min_v and the max_v of lines 313-317.
WindCurveBetween(species, dbh_cm, height_m, crown_diameter_m, cavity_inner_cm, fullness_override, site_factor, k_defect, min_v, max_v) ==
    WindCurveOver(species, dbh_cm, height_m, crown_diameter_m, cavity_inner_cm,
                  fullness_override, site_factor, k_defect,
                  WindSamples(min_v, WindMax(min_v, max_v)))

build_sf_vs_wind_curve(species, dbh_cm, height_m, crown_diameter_m, design_wind_ms, cavity_inner_cm, fullness_override, site_factor, k_defect, wind_to_failure) ==
    IF Le(design_wind_ms, Zero) THEN Points(<<>>, <<>>)
    ELSE WindCurveBetween(species, dbh_cm, height_m, crown_diameter_m, cavity_inner_cm,
                          fullness_override, site_factor, k_defect,
                          WindMin(design_wind_ms),
                          WindMaxExtended(design_wind_ms, wind_to_failure))

Twenty == FromInt(20)
Forty == FromInt(40)
ReductionSteps == 9

\* Mutant of MaxReduction: a base of zero is not replaced by 20.
MaxReductionNoDefault(base_reduction_percent) ==
    FMax(Five, FMin(Forty, base_reduction_percent))

\* max_red = max(5.0, min(40.0, base_reduction_percent or 20.0))
MaxReduction(base_reduction_percent) ==
    FMax(Five, FMin(Forty, IF base_reduction_percent.m = 0 /\ ~base_reduction_percent.inf
                           THEN Twenty ELSE base_reduction_percent))

\* r of sample i (0-based): max_red * i / (steps - 1)
ReductionSample(max_red, i) ==
    FDiv(FMul(max_red, FromInt(i)), FromInt(ReductionSteps - 1))

ReductionSamples(max_red) ==
    [i \in 1..ReductionSteps |-> ReductionSample(max_red, i - 1)]

\* crown_after = crown_diameter_m * (1.0 - r / 100.0)
CrownAfter(crown_diameter_m, r) == FMul(crown_diameter_m, FSub(One, FDiv(r, Hundred)))

\* Lines 411-413.
FullnessBase(species, fullness_override) ==
    IF fullness_override # None THEN fullness_override[1] ELSE species.default_fullness

\* Mutant of FullnessAfter: the override forgotten.
FullnessAfterIgnoresOverride(species, fullness_override, fullness_reduction_percent) ==
    FMax(FullnessMin,
         FMin(One, FMul(species.default_fullness,
                        FSub(One, FDiv(fullness_reduction_percent, Hundred)))))

\* Lines 417-418: the thinned fullness, the same at every sample.
FullnessAfter(species, fullness_override, fullness_reduction_percent) ==
    FMax(FullnessMin,
         FMin(One, FMul(FullnessBase(species, fullness_override),
                        FSub(One, FDiv(fullness_reduction_percent, Hundred)))))

\* Lines 414-431: calculate_single at every reduction of xs.
CrownCurveOver(species, dbh_cm, height_m, crown_diameter_m, design_wind_ms, cavity_inner_cm, site_factor, k_defect, fullness_after, xs) ==
    PointsFromResults(xs,
        [i \in 1..Len(xs) |->
            calculate_single(species, dbh_cm, height_m,
                             CrownAfter(crown_diameter_m, xs[i]), design_wind_ms,
                             cavity_inner_cm, Some(fullness_after), site_factor,
                             k_defect)])

build_sf_vs_crown_reduction_curve(species, dbh_cm, height_m, crown_diameter_m, design_wind_ms, cavity_inner_cm, fullness_override, site_factor, k_defect, base_reduction_percent, fullness_reduction_percent) ==
    CrownCurveOver(species, dbh_cm, height_m, crown_diameter_m, design_wind_ms,
                   cavity_inner_cm, site_factor, k_defect,
                   FullnessAfter(species, fullness_override, fullness_reduction_percent),
                   ReductionSamples(MaxReduction(base_reduction_percent)))

----------------------------------------------------------------------------
\* A run of the engine on one scenario: the calls main() makes, in its order.

VARIABLES
    catalog,          \* SPECIES_PRESETS
    args,             \* the scenario: the arguments every call shares
    pc,               \* the last call made
    k_defect,         \* compute_defect_strength_factor's result
    result,           \* calculate_single's CalcResult
    wind_to_failure,  \* estimate_wind_to_failure's result
    wind_curve,       \* build_sf_vs_wind_curve's result
    rw_curve,         \* build_sf_vs_residual_wall_curve's result
    crown_curve,      \* build_sf_vs_crown_reduction_curve's result
    res_wall_frac     \* residual_wall_fraction's result

\* The input collectors (the terminal prompts of main() and the form of
\* AusTreeCalcGUI); their actions are further down.
VARIABLES
    session,          \* "engine", "gui" or "cli": what the behaviour is about
    prompt,           \* CLI: the prompt main is waiting at
    form,             \* GUI: the form's variables; CLI: main's locals so far
    edits,            \* the number of inputs typed or changed
    last_result,      \* GUI: _last_result
    output,           \* the results shown to the user, if any
    report,           \* what the latest report was written from, if any
    shown,            \* GUI: the dialogs of the latest Run; CLI: the lines printed
    invoked,          \* the arguments of the latest submission's engine calls
    log               \* the two latest calls of calculate_single by a collector

engine == <<args, pc, k_defect, result, wind_to_failure, wind_curve, rw_curve, crown_curve, res_wall_frac>>

collector == <<session, prompt, form, edits, last_result, output, report, shown, invoked, log>>

vars == <<catalog, engine, collector>>

\* The scenarios: main()'s defaults with at most MaxVaried arguments changed
\* (the five defect flags count as one argument when they are one of
\* FlagValues; every other combination of flags is tried on the defaults).
MaxVaried == 2

NoFlags == [bracket_fungi |-> FALSE, cavity_decay |-> FALSE, cracks |-> FALSE,
            basal_decay |-> FALSE, union |-> FALSE]
AllFlags == [bracket_fungi : BOOLEAN, cavity_decay : BOOLEAN, cracks : BOOLEAN,
             basal_decay : BOOLEAN, union : BOOLEAN]

BaseSpecies == 2
BaseDbh == FromInt(50)
BaseHeight == FromInt(18)
BaseCrown == FromInt(10)
BaseWind == FromInt(40)
BaseSite == One
BaseReduction == Twenty
BaseThinning == FromInt(30)

DbhValues == {BaseDbh, FromInt(30), FromInt(115), FromInt(0), FromInt(-50)}
HeightValues == {BaseHeight, FromInt(10)}
CrownValues == {BaseCrown, FromInt(6), FromInt(0)}
WindValues == {BaseWind, FromInt(20), FromInt(58), FromInt(2), FromInt(0)}
SiteValues == {BaseSite, Lit(8, 10)}
FullnessValues == {None, Some(Lit(5, 100)), Some(Lit(1, 2)), Some(Lit(15, 10))}
ReductionValues == {BaseReduction, FromInt(3), FromInt(50), FromInt(0), Lit(73, 10)}
ThinningValues == {BaseThinning, FromInt(0)}
\* No cavity, a non-positive one, one inside the trunk, one wider than the
\* trunk, and the widest one still below dbh_cm.
CavityValues(dbh_cm) ==
    {None, Some(FromInt(-5)), Some(FromInt(20)), Some(FromInt(150))}
        \cup (IF Gt(dbh_cm, Zero) THEN {Some(Pred(dbh_cm))} ELSE {})

Flags(b1, b2, b3, b4, b5) ==
    [bracket_fungi |-> b1, cavity_decay |-> b2, cracks |-> b3,
     basal_decay |-> b4, union |-> b5]
FlagValues == {NoFlags, Flags(TRUE, TRUE, TRUE, TRUE, TRUE),
               Flags(FALSE, FALSE, TRUE, FALSE, FALSE),
               Flags(TRUE, FALSE, FALSE, TRUE, TRUE)}

Count(b) == IF b THEN 1 ELSE 0
FlagCount(flags) ==
    IF flags = NoFlags THEN 0 ELSE IF flags \in FlagValues THEN 1 ELSE MaxVaried

\* No engine call made yet.
EngineIdle ==
    /\ k_defect = Zero
    /\ result = Raised
    /\ wind_to_failure = None
    /\ wind_curve = NoPoints
    /\ rw_curve = NoCurve
    /\ crown_curve = NoPoints
    /\ res_wall_frac = Zero

\* Nothing typed, nothing submitted.
CollectorIdle ==
    /\ prompt = "none"
    /\ form = <<>>
    /\ edits = 0
    /\ last_result = None
    /\ output = None
    /\ report = None
    /\ shown = {}
    /\ invoked = None
    /\ log = <<>>

\* How many arguments of a scenario depart from main()'s defaults.
Varied(sp, dbh, h, crown, wind, site, full, flags, cav, red, thin) ==
    Count(sp # BaseSpecies) + Count(dbh # BaseDbh) + Count(h # BaseHeight)
        + Count(crown # BaseCrown) + Count(wind # BaseWind) + Count(site # BaseSite)
        + Count(full # None) + FlagCount(flags) + Count(cav # None)
        + Count(red # BaseReduction) + Count(thin # BaseThinning)

Init ==
    /\ catalog = SPECIES_PRESETS
    /\ \E sp \in DOMAIN catalog, dbh \in DbhValues, h \in HeightValues :
          /\ Varied(sp, dbh, h, BaseCrown, BaseWind, BaseSite, None, NoFlags, None,
                    BaseReduction, BaseThinning) <= MaxVaried
          /\ \E crown \in CrownValues, wind \in WindValues, site \in SiteValues :
                /\ Varied(sp, dbh, h, crown, wind, site, None, NoFlags, None,
                          BaseReduction, BaseThinning) <= MaxVaried
                /\ \E full \in FullnessValues, cav \in CavityValues(dbh),
                      red \in ReductionValues, thin \in ThinningValues :
                      /\ Varied(sp, dbh, h, crown, wind, site, full, NoFlags, cav,
                                red, thin) <= MaxVaried
                      /\ \E flags \in AllFlags :
                            /\ Varied(sp, dbh, h, crown, wind, site, full, flags,
                                      cav, red, thin) <= MaxVaried
                            /\ args = [species |-> sp, dbh_cm |-> dbh, height_m |-> h,
                                       crown_diameter_m |-> crown,
                                       design_wind_ms |-> wind,
                                       cavity_inner_cm |-> cav,
                                       fullness_override |-> full,
                                       site_factor |-> site, flags |-> flags,
                                       base_reduction_percent |-> red,
                                       fullness_reduction_percent |-> thin]
    /\ pc = "start"
    /\ EngineIdle
    /\ session = "engine"
    /\ CollectorIdle

Species == catalog[args.species]

\* k_defect = compute_defect_strength_factor(...)
ComputeDefect ==
    /\ pc = "start"
    /\ k_defect' = compute_defect_strength_factor(args.flags.bracket_fungi,
                       args.flags.cavity_decay, args.flags.cracks,
                       args.flags.basal_decay, args.flags.union)
    /\ pc' = "defect"
    /\ UNCHANGED <<catalog, args, result, wind_to_failure, wind_curve, rw_curve,
                   crown_curve, res_wall_frac, collector>>

\* result = calculate_single(...); a ZeroDivisionError ends the run.
CalculateSingle ==
    /\ pc = "defect"
    /\ result' = calculate_single(Species, args.dbh_cm, args.height_m,
                     args.crown_diameter_m, args.design_wind_ms, args.cavity_inner_cm,
                     args.fullness_override, args.site_factor, k_defect)
    /\ pc' = IF result'.raised THEN "raised" ELSE "calc"
    /\ UNCHANGED <<catalog, args, k_defect, wind_to_failure, wind_curve, rw_curve,
                   crown_curve, res_wall_frac, collector>>

\* wind_to_failure = estimate_wind_to_failure(...)
EstimateWindToFailure ==
    /\ pc = "calc"
    /\ wind_to_failure' = estimate_wind_to_failure(Species, args.dbh_cm, args.height_m,
                              args.crown_diameter_m, args.design_wind_ms,
                              args.cavity_inner_cm, args.fullness_override,
                              args.site_factor, k_defect)
    /\ pc' = "wtf"
    /\ UNCHANGED <<catalog, args, k_defect, result, wind_curve, rw_curve, crown_curve,
                   res_wall_frac, collector>>

\* sf_wind_x, sf_wind_y = build_sf_vs_wind_curve(...)
BuildWindCurve ==
    /\ pc = "wtf"
    /\ wind_curve' = build_sf_vs_wind_curve(Species, args.dbh_cm, args.height_m,
                         args.crown_diameter_m, args.design_wind_ms,
                         args.cavity_inner_cm, args.fullness_override,
                         args.site_factor, k_defect, wind_to_failure)
    /\ pc' = IF wind_curve'.raised THEN "raised" ELSE "wind_curve"
    /\ UNCHANGED <<catalog, args, k_defect, result, wind_to_failure, rw_curve,
                   crown_curve, res_wall_frac, collector>>

\* rw_x, rw_y, crit_rw, crit_wall = build_sf_vs_residual_wall_curve(...)
BuildResidualWallCurve ==
    /\ pc = "wind_curve"
    /\ rw_curve' = build_sf_vs_residual_wall_curve(Species, args.dbh_cm, args.height_m,
                       args.crown_diameter_m, args.design_wind_ms,
                       args.fullness_override, args.site_factor, k_defect)
    /\ pc' = IF rw_curve'.raised THEN "raised" ELSE "rw_curve"
    /\ UNCHANGED <<catalog, args, k_defect, result, wind_to_failure, wind_curve,
                   crown_curve, res_wall_frac, collector>>

\* red_x, red_y = build_sf_vs_crown_reduction_curve(...)
BuildCrownReductionCurve ==
    /\ pc = "rw_curve"
    /\ crown_curve' = build_sf_vs_crown_reduction_curve(Species, args.dbh_cm,
                          args.height_m, args.crown_diameter_m, args.design_wind_ms,
                          args.cavity_inner_cm, args.fullness_override,
                          args.site_factor, k_defect, args.base_reduction_percent,
                          args.fullness_reduction_percent)
    /\ pc' = IF crown_curve'.raised THEN "raised" ELSE "crown_curve"
    /\ UNCHANGED <<catalog, args, k_defect, result, wind_to_failure, wind_curve,
                   rw_curve, res_wall_frac, collector>>

\* res_wall_frac = residual_wall_fraction(dbh_cm, cavity_inner_cm)
ResidualWallFraction ==
    /\ pc = "crown_curve"
    /\ res_wall_frac' = residual_wall_fraction(args.dbh_cm, args.cavity_inner_cm)
    /\ pc' = "done"
    /\ UNCHANGED <<catalog, args, k_defect, result, wind_to_failure, wind_curve,
                   rw_curve, crown_curve, collector>>

Next ==
    \/ ComputeDefect
    \/ CalculateSingle
    \/ EstimateWindToFailure
    \/ BuildWindCurve
    \/ BuildResidualWallCurve
    \/ BuildCrownReductionCurve
    \/ ResidualWallFraction

Spec == Init /\ [][Next]_vars

----------------------------------------------------------------------------
\* Vocabulary of the properties

FAbs(a) == IF a.m < 0 THEN FNeg(a) ELSE a
Four == FromInt(4)

\* 32 units of roundoff: 2^(5 - Prec), which is 2^-48 for binary64.
Tol == [inf |-> FALSE, m |-> 2^(Prec - 1), e |-> 6 - 2 * Prec]

\* a = b up to rounding: |a - b| <= Tol * |b|.
Near(a, b) == IsFinite(a) /\ IsFinite(b) /\ Le(FAbs(FSub(a, b)), FMul(Tol, FAbs(b)))

\* a within 1 % of the integer ratio n / d.
About(a, n, d) ==
    IsFinite(a) /\ Le(FAbs(FSub(a, Lit(n, d))), FDiv(Lit(n, d), Hundred))

\* The CalculationInput invariants of the scenario.
ValidInput ==
    /\ args.species \in 1..Len(catalog)
    /\ Gt(args.dbh_cm, Zero) /\ Gt(args.height_m, Zero)
    /\ Gt(args.crown_diameter_m, Zero) /\ Gt(args.design_wind_ms, Zero)
    /\ Gt(args.site_factor, Zero)
    /\ Ge(k_defect, KMin) /\ Le(k_defect, One)
    /\ args.cavity_inner_cm = None \/ Gt(args.cavity_inner_cm[1], Zero)

\* calculate_single has returned for the scenario.
Calculated == pc \in {"calc", "wtf", "wind_curve", "rw_curve", "crown_curve", "done"}

\* The scenario's call again, at another wind speed or with another cavity.
AtWind(V) ==
    calculate_single(Species, args.dbh_cm, args.height_m, args.crown_diameter_m, V,
                     args.cavity_inner_cm, args.fullness_override, args.site_factor,
                     k_defect)
WithCavity(cav) ==
    calculate_single(Species, args.dbh_cm, args.height_m, args.crown_diameter_m,
                     args.design_wind_ms, cav, args.fullness_override,
                     args.site_factor, k_defect)

BaseScenario ==
    args = [species |-> BaseSpecies, dbh_cm |-> BaseDbh, height_m |-> BaseHeight,
            crown_diameter_m |-> BaseCrown, design_wind_ms |-> BaseWind,
            cavity_inner_cm |-> None, fullness_override |-> None,
            site_factor |-> BaseSite, flags |-> NoFlags,
            base_reduction_percent |-> BaseReduction,
            fullness_reduction_percent |-> BaseThinning]

----------------------------------------------------------------------------
\* C1: for every valid input for which calculate_single returns, the returned
\* safety factor is > 0 (finite or +infinity) and the bending stress is >= 0.
C1_PositiveSafetyFactor ==
    (Calculated /\ ValidInput) =>
        /\ Gt(result.safety_factor, Zero)
        /\ Ge(result.bending_stress_mpa, Zero)

C1_Witness ==
    /\ pc = "calc" /\ ValidInput
    /\ args.cavity_inner_cm # None /\ args.fullness_override # None
    /\ IsFinite(result.safety_factor)

\* C2: at wind speed 2V, all else unchanged, calculate_single returns exactly
\* a quarter of the safety factor and exactly four times the bending stress.
C2_InverseSquare ==
    (pc = "calc" /\ ValidInput) =>
        LET r2 == AtWind(FMul(Two, args.design_wind_ms))
        IN  /\ ~r2.raised
            /\ r2.safety_factor = FDiv(result.safety_factor, Four)
            /\ r2.bending_stress_mpa = FMul(Four, result.bending_stress_mpa)

C2_Witness ==
    /\ pc = "calc" /\ ValidInput /\ IsFinite(result.safety_factor)
    /\ args.design_wind_ms = FromInt(58) /\ args.cavity_inner_cm # None

\* C3 as stated: Vf * Vf = V * V * SF exactly, and the safety factor at Vf is
\* exactly 1.0.
C3_ExactFailureWind ==
    (pc = "wtf" /\ ValidInput /\ wind_to_failure # None) =>
        LET Vf == wind_to_failure[1]
            V == args.design_wind_ms
        IN  /\ FMul(Vf, Vf) = FMul(FMul(V, V), result.safety_factor)
            /\ AtWind(Vf).safety_factor = One

\* C3, amended: Vf is the float V * sqrt(SF); Vf * Vf equals V * V * SF, and
\* the safety factor at Vf equals 1.0, up to rounding (relative error at most
\* 32 units of roundoff).
C3_FailureWindUpToRounding ==
    (pc = "wtf" /\ ValidInput /\ IsFinite(result.safety_factor)) =>
        /\ wind_to_failure # None
        /\ LET Vf == wind_to_failure[1]
               V == args.design_wind_ms
           IN  /\ Near(FMul(Vf, Vf), FMul(FMul(V, V), result.safety_factor))
               /\ Near(AtWind(Vf).safety_factor, One)

C3_Witness ==
    /\ pc = "wtf" /\ ValidInput /\ wind_to_failure # None
    /\ AtWind(wind_to_failure[1]).safety_factor # One

\* C4 as stated: the concrete scenario gives q = 960 Pa, wind force about
\* 47,500 N, moment about 564,400 N.m, stress about 45.99 MPa, SF about 0.761.
C4_ScenarioAsStated ==
    (Calculated /\ BaseScenario) =>
        /\ result.q_pa = FromInt(960)
        /\ About(result.wind_force_n, 47500, 1)
        /\ About(result.bending_moment_nm, 564400, 1)
        /\ About(result.bending_stress_mpa, 4599, 100)
        /\ About(result.safety_factor, 761, 1000)

\* C4, amended: the concrete scenario gives q = 960 Pa, wind force about
\* 11,875 N (q * drag 0.25 * area), moment about 141,100 N.m, stress about
\* 11.50 MPa and SF about 3.04.
C4_Scenario ==
    (Calculated /\ BaseScenario) =>
        /\ result.q_pa = FromInt(960)
        /\ About(result.wind_force_n, 11875, 1)
        /\ About(result.bending_moment_nm, 141100, 1)
        /\ About(result.bending_stress_mpa, 1150, 100)
        /\ About(result.safety_factor, 304, 100)

C4_Witness == pc = "calc" /\ BaseScenario /\ ~result.raised

\* C5: for every combination of the five flags, 0.3 <= k <= 1.0.
C5_DefectFactorRange ==
    (pc # "start") => (Ge(k_defect, KMin) /\ Le(k_defect, One))

C5_Witness ==
    /\ pc = "defect" /\ args.flags.bracket_fungi /\ args.flags.cavity_decay
    /\ ~args.flags.cracks /\ args.flags.basal_decay /\ ~args.flags.union

\* The penalty the claim gives flag i (bracket fungi, cavity decay, cracks,
\* basal decay, union).
ClaimPenalty(i) == IF i \in {1, 2, 4} THEN Penalty08 ELSE Penalty09

TrueFlags ==
    {i \in 1..5 : <<args.flags.bracket_fungi, args.flags.cavity_decay, args.flags.cracks,
                    args.flags.basal_decay, args.flags.union>>[i]}

\* The products of the penalties of the flags in S, started from acc, in
\* every order of multiplication.
RECURSIVE ProductsInEveryOrder(_, _)
ProductsInEveryOrder(S, acc) ==
    IF S = {} THEN {acc}
    ELSE UNION {ProductsInEveryOrder(S \ {i}, FMul(acc, ClaimPenalty(i))) : i \in S}

UnclampedK ==
    DefectProduct(args.flags.bracket_fungi, args.flags.cavity_decay, args.flags.cracks,
                  args.flags.basal_decay, args.flags.union)

\* C6 as stated: k is exactly the product of the true flags' penalties in
\* whatever order they are multiplied, 1.0 with no flag, 0.41472 with all
\* five, and the clamp never changes the product.
C6_ExactProduct ==
    (pc = "defect") =>
        /\ \A p \in ProductsInEveryOrder(TrueFlags, One) : k_defect = p
        /\ TrueFlags = {} => k_defect = One
        /\ TrueFlags = 1..5 => k_defect = Lit(1296, 3125)
        /\ k_defect = UnclampedK

\* C6, amended: k is the product of the true flags' penalties multiplied in
\* the order bracket fungi, cavity decay, cracks, basal decay, union; the
\* product in any other order, and 0.41472 when all five are true, equal it
\* up to rounding (relative error at most 32 units of roundoff); k is exactly
\* 1.0 with no flag, and the clamp never changes the product.
C6_ProductUpToRounding ==
    (pc = "defect") =>
        /\ \A p \in ProductsInEveryOrder(TrueFlags, One) : Near(p, k_defect)
        /\ TrueFlags = {} => k_defect = One
        /\ TrueFlags = 1..5 => Near(k_defect, Lit(1296, 3125))
        /\ k_defect = UnclampedK

C6_Witness ==
    /\ pc = "defect" /\ TrueFlags = 1..5
    /\ \E p \in ProductsInEveryOrder(TrueFlags, One) : p # k_defect

\* C7: a cavity >= dbh_cm gives the result of the cavity 0.99 * dbh_cm, and
\* for every dbh_cm > 0 and every cavity the section modulus is positive and
\* sigma = M / W does not fail.
C7_DivisionNeverFails ==
    (pc \in {"calc", "raised"} /\ Gt(args.dbh_cm, Zero)) =>
        /\ ~result.raised
        /\ (args.cavity_inner_cm # None /\ Ge(args.cavity_inner_cm[1], args.dbh_cm))
             => result = WithCavity(Some(FMul(args.dbh_cm, CavityClamp)))

\* C8 as stated: 1.0 when dbh_cm <= 0 or the cavity is absent or <= 0, else
\* (dbh_cm - min(cavity, 0.99 * dbh_cm)) / dbh_cm, which lies in [0.01, 1).
C8_WallFractionAsStated ==
    (pc = "done") =>
        IF Le(args.dbh_cm, Zero) \/ args.cavity_inner_cm = None
              \/ Le(args.cavity_inner_cm[1], Zero)
        THEN res_wall_frac = One
        ELSE /\ res_wall_frac =
                  FDiv(FSub(args.dbh_cm, FMin(args.cavity_inner_cm[1],
                                              FMul(args.dbh_cm, CavityClamp))),
                       args.dbh_cm)
             /\ Ge(res_wall_frac, Lit(1, 100)) /\ Lt(res_wall_frac, One)

\* C8, amended: 1.0 when dbh_cm <= 0 or the cavity is absent or <= 0, else
\* (dbh_cm - c) / dbh_cm with c = 0.99 * dbh_cm when cavity >= dbh_cm and
\* c = cavity otherwise; the value lies in (0, 1], so the final clamp never
\* changes it.
C8_WallFraction ==
    (pc = "done") =>
        IF Le(args.dbh_cm, Zero) \/ args.cavity_inner_cm = None
              \/ Le(args.cavity_inner_cm[1], Zero)
        THEN res_wall_frac = One
        ELSE LET c == IF Ge(args.cavity_inner_cm[1], args.dbh_cm)
                      THEN FMul(args.dbh_cm, CavityClamp)
                      ELSE args.cavity_inner_cm[1]
             IN  /\ res_wall_frac = FDiv(FSub(args.dbh_cm, c), args.dbh_cm)
                 /\ Gt(res_wall_frac, Zero) /\ Le(res_wall_frac, One)

C8_Witness ==
    /\ pc = "done" /\ Gt(args.dbh_cm, Zero) /\ args.cavity_inner_cm # None
    /\ Lt(args.cavity_inner_cm[1], args.dbh_cm)
    /\ Gt(args.cavity_inner_cm[1], FMul(args.dbh_cm, CavityClamp))

\* C9: a critical residual wall percent, when there is one, is never below 20
\* and never above 100.
C9_CriticalInRange ==
    (pc \in {"rw_curve", "crown_curve", "done"} /\ rw_curve.critical_rw # None) =>
        /\ Ge(rw_curve.critical_rw[1], rw_min)
        /\ Le(rw_curve.critical_rw[1], rw_max)

C9_Witness ==
    /\ pc = "rw_curve" /\ rw_curve.critical_rw # None
    /\ Gt(rw_curve.critical_rw[1], rw_min) /\ Lt(rw_curve.critical_rw[1], rw_max)

\* The safety factor recomputed at the critical residual wall percent c, with
\* the simulated cavity dbh_cm * (1 - c / 100).
RecomputedAtCritical ==
    WithCavity(SimulatedCavity(args.dbh_cm, rw_curve.critical_rw[1])).safety_factor

\* C10 as stated: the safety factor recomputed at the critical percent is 1.0
\* within floating-point tolerance.
C10_RecomputedIsOne ==
    (pc = "rw_curve" /\ ValidInput /\ rw_curve.critical_rw # None) =>
        Near(RecomputedAtCritical, One)

\* C10, amended: the safety factor recomputed at the critical percent is 1.0
\* only to within the error of the linear interpolation between two samples
\* 10 percent apart: it lies between 1.0 and 1.013, up to rounding.
C10_RecomputedWithinInterpolationError ==
    (pc = "rw_curve" /\ ValidInput /\ rw_curve.critical_rw # None) =>
        /\ Ge(RecomputedAtCritical, FSub(One, Tol))
        /\ Le(RecomputedAtCritical, FAdd(Lit(1013, 1000), Tol))

C10_Witness ==
    /\ pc = "rw_curve" /\ ValidInput /\ rw_curve.critical_rw # None
    /\ Gt(RecomputedAtCritical, Lit(101, 100))

----------------------------------------------------------------------------
\* The scenario's call again with another fullness override.
WithFullness(full) ==
    calculate_single(Species, args.dbh_cm, args.height_m, args.crown_diameter_m,
                     args.design_wind_ms, args.cavity_inner_cm, full,
                     args.site_factor, k_defect)

\* build_sf_vs_crown_reduction_curve has returned for the scenario.
CrownCurveBuilt == pc = "crown_curve"

\* C11: the first point of the crown-reduction curve has x = 0 and, as y, the
\* safety factor of calculate_single with the thinned fullness as override;
\* when fullness_reduction_percent is 0 that y is exactly the safety factor
\* calculate_single returned for the unmodified scenario.
C11_FirstPointIsBase ==
    CrownCurveBuilt =>
        /\ crown_curve.xs[1] = Zero
        /\ crown_curve.ys[1] =
               WithFullness(Some(FullnessAfter(Species, args.fullness_override,
                                 args.fullness_reduction_percent))).safety_factor
        /\ args.fullness_reduction_percent = Zero =>
               crown_curve.ys[1] = result.safety_factor

\* A thinning of 0 % on a scenario with a fullness override.
C11_Witness ==
    /\ CrownCurveBuilt /\ args.fullness_reduction_percent = Zero
    /\ args.fullness_override # None /\ IsFinite(result.safety_factor)
    /\ crown_curve.ys[1] = result.safety_factor

----------------------------------------------------------------------------
\* estimate_wind_to_failure called on the scenario (the call of
\* calculate_single it starts with raises when that call raises).
EstimateOnScenario ==
    estimate_wind_to_failure(Species, args.dbh_cm, args.height_m,
                             args.crown_diameter_m, args.design_wind_ms,
                             args.cavity_inner_cm, args.fullness_override,
                             args.site_factor, k_defect)

\* C12: estimate_wind_to_failure returns None exactly when the safety factor
\* at the design wind is non-finite or <= 0 and a finite positive wind speed
\* otherwise; for every valid input it returns a wind speed.
C12_ReturnsForValidInput ==
    /\ pc = "wtf" =>
          /\ wind_to_failure = None <=>
                (~IsFinite(result.safety_factor) \/ Le(result.safety_factor, Zero))
          /\ wind_to_failure # None =>
                (IsFinite(wind_to_failure[1]) /\ Gt(wind_to_failure[1], Zero))
    /\ (pc \in {"calc", "raised"} /\ ValidInput) =>
          /\ ~AtWind(args.design_wind_ms).raised
          /\ EstimateOnScenario # None

----------------------------------------------------------------------------
\* C17: when calculate_single computes a bending stress of zero (a design
\* wind of 0 or a crown diameter of 0 on a trunk with dbh_cm > 0) it returns
\* safety_factor = +infinity, which compares greater than every finite safety
\* factor (that of the scenario at any other wind, and any float).
C17_ZeroStressIsInfinite ==
    /\ (pc = "calc" /\ result.bending_stress_mpa = Zero) =>
          /\ result.safety_factor = Inf
          /\ \A V \in WindValues :
                (~AtWind(V).raised /\ IsFinite(AtWind(V).safety_factor)) =>
                    Gt(result.safety_factor, AtWind(V).safety_factor)
          /\ Gt(result.safety_factor, [inf |-> FALSE, m |-> 2^Prec - 1, e |-> 2^20])
    /\ (pc \in {"calc", "raised"} /\ Gt(args.dbh_cm, Zero) /\ args.cavity_inner_cm = None
           /\ (args.design_wind_ms = Zero \/ args.crown_diameter_m = Zero)) =>
          (pc = "calc" /\ result.bending_stress_mpa = Zero)

\* A design wind of 0 on the default tree.
C17_Witness ==
    /\ pc = "calc" /\ args.design_wind_ms = Zero /\ Gt(args.dbh_cm, Zero)
    /\ result.bending_stress_mpa = Zero /\ result.safety_factor = Inf

----------------------------------------------------------------------------
\* max(0.1, min(1.0, x)) written as the nearest point of [0.1, 1.0].
NearestInRange(x) ==
    IF Lt(x, FullnessMin) THEN FullnessMin ELSE IF Gt(x, One) THEN One ELSE x

\* The fullness C18 expects calculate_single to use.
ExpectedFullness ==
    IF args.fullness_override # None THEN NearestInRange(args.fullness_override[1])
    ELSE Species.default_fullness

\* C18: the effective crown fullness is the override clamped to [0.1, 1.0]
\* when one is supplied and the species' default when absent; an override
\* outside the range is not rejected, and the result is that of the call
\* with the override replaced by the nearest bound.
C18_FullnessClamped ==
    (pc \in {"calc", "raised"}) =>
        /\ EffectiveFullness(Species, args.fullness_override) = ExpectedFullness
        /\ result = WithFullness(Some(ExpectedFullness))

\* An override above 1.0 or below 0.1 on a call that returned.
C18_Witness ==
    /\ pc = "calc" /\ args.fullness_override # None
    /\ args.fullness_override[1] # ExpectedFullness
    /\ IsFinite(result.safety_factor)

----------------------------------------------------------------------------
WindCurveBuilt == pc = "wind_curve"

\* min_v and max_v as C19 states them.
ExpectedMinV ==
    IF Gt(FMul(Half, args.design_wind_ms), Five) THEN FMul(Half, args.design_wind_ms)
    ELSE Five
ExpectedMaxV ==
    LET upper == FMul(Lit(18, 10), args.design_wind_ms)
        raised_to == IF /\ wind_to_failure # None
                        /\ IsFinite(wind_to_failure[1]) /\ Gt(wind_to_failure[1], Zero)
                        /\ Gt(FMul(Lit(11, 10), wind_to_failure[1]), upper)
                     THEN FMul(Lit(11, 10), wind_to_failure[1]) ELSE upper
    IN  IF Le(raised_to, ExpectedMinV) THEN FAdd(ExpectedMinV, Five) ELSE raised_to

\* Point i of an even division of [min_v, max_v] into 11 steps.
EvenlySpaced(i) ==
    FAdd(ExpectedMinV,
         FMul(FromInt(i - 1), FDiv(FSub(ExpectedMaxV, ExpectedMinV), FromInt(11))))

\* The first point, the number of points and the safety factors of C19.
WindCurveShape ==
    /\ Len(wind_curve.xs) = 12 /\ Len(wind_curve.ys) = 12
    /\ wind_curve.xs[1] = ExpectedMinV
    /\ \A i \in 1..12 : wind_curve.ys[i] = AtWind(wind_curve.xs[i]).safety_factor

----------------------------------------------------------------------------
RwCurveBuilt == pc = "rw_curve"

\* dbh_cm * (1 - rw / 100) for the percent rw, absent unless it is > 0.
CavityAtPercent(rw) ==
    IF Gt(FMul(args.dbh_cm, FSub(One, FDiv(FromInt(rw), Hundred))), Zero)
    THEN Some(FMul(args.dbh_cm, FSub(One, FDiv(FromInt(rw), Hundred))))
    ELSE None

\* C20: the residual-wall curve has exactly 9 points, at the percents 20, 30,
\* ..., 100; the point at rw has the safety factor of calculate_single with
\* the cavity dbh_cm * (1 - rw / 100), and the last that of the solid section.
C20_NinePoints ==
    RwCurveBuilt =>
        /\ Len(rw_curve.xs) = 9 /\ Len(rw_curve.ys) = 9
        /\ \A i \in 1..9 :
              /\ rw_curve.xs[i] = FromInt(10 * (i + 1))
              /\ rw_curve.ys[i] = WithCavity(CavityAtPercent(10 * (i + 1))).safety_factor
        /\ CavityAtPercent(100) = None
        /\ rw_curve.ys[9] = WithCavity(None).safety_factor

\* A hollow trunk: the curve's points differ and the last is not the
\* scenario's own safety factor.
C20_Witness ==
    /\ RwCurveBuilt /\ ValidInput /\ args.cavity_inner_cm # None
    /\ Len(rw_curve.xs) = 9
    /\ Lt(rw_curve.ys[1], rw_curve.ys[9])
    /\ rw_curve.ys[9] # result.safety_factor

----------------------------------------------------------------------------
\* The consecutive pairs of samples of the residual-wall curve with both
\* safety factors finite, one >= 1 and the other <= 1.
BracketingPairs ==
    {i \in 1..(Len(rw_curve.ys) - 1) :
        /\ IsFinite(rw_curve.ys[i]) /\ IsFinite(rw_curve.ys[i + 1])
        /\ \/ Ge(rw_curve.ys[i], One) /\ Le(rw_curve.ys[i + 1], One)
           \/ Le(rw_curve.ys[i], One) /\ Ge(rw_curve.ys[i + 1], One)}

\* The percent at which the chord through the samples i and i + 1 reaches
\* SF = 1; the left end when the chord is level.
PercentAtOne(x1, x2, y1, y2) ==
    IF y1 = y2 THEN x1
    ELSE FAdd(x1, FMul(FSub(x2, x1), FDiv(FSub(One, y1), FSub(y2, y1))))

PercentAtOneOfPair(i) ==
    PercentAtOne(rw_curve.xs[i], rw_curve.xs[i + 1], rw_curve.ys[i], rw_curve.ys[i + 1])

\* C21: the critical residual wall percent is not None exactly when some
\* consecutive pair of samples with both SF values finite brackets SF = 1;
\* its value is the linear interpolation of the percent at SF = 1 on the
\* first such pair in increasing-percent order; the critical wall thickness
\* is None exactly when the critical percent is None and otherwise equals
\* dbh_cm * (critical percent / 100) / 2.
C21_CriticalFromFirstBracket ==
    RwCurveBuilt /\ ~rw_curve.raised =>
        /\ (rw_curve.critical_rw # None) <=> (BracketingPairs # {})
        /\ \A i \in BracketingPairs :
              (\A j \in BracketingPairs : i <= j) =>
                  rw_curve.critical_rw = Some(PercentAtOneOfPair(i))
        /\ (rw_curve.critical_wall_cm = None) <=> (rw_curve.critical_rw = None)
        /\ rw_curve.critical_rw # None =>
              rw_curve.critical_wall_cm =
                  Some(FDiv(FMul(args.dbh_cm, FDiv(rw_curve.critical_rw[1], Hundred)), Two))

\* A curve that crosses SF = 1 after its first pair of samples, strictly
\* inside the pair.
C21_Witness ==
    /\ RwCurveBuilt /\ ~rw_curve.raised
    /\ BracketingPairs # {} /\ 1 \notin BracketingPairs
    /\ rw_curve.critical_rw # None
    /\ rw_curve.critical_wall_cm # None
    /\ \E i \in BracketingPairs :
          /\ Gt(rw_curve.critical_rw[1], rw_curve.xs[i])
          /\ Lt(rw_curve.critical_rw[1], rw_curve.xs[i + 1])

----------------------------------------------------------------------------
\* The scenario's call again with another crown diameter and fullness.
WithCrownAndFullness(crown, full) ==
    calculate_single(Species, args.dbh_cm, args.height_m, crown,
                     args.design_wind_ms, args.cavity_inner_cm, full,
                     args.site_factor, k_defect)

\* clamp(base_reduction_percent, or 20 when it is zero, 5, 40)
ExpectedMaxReduction ==
    IF args.base_reduction_percent = Zero THEN Twenty
    ELSE IF Lt(args.base_reduction_percent, Five) THEN Five
    ELSE IF Gt(args.base_reduction_percent, Forty) THEN Forty
    ELSE args.base_reduction_percent

\* clamp(fullness_base * (1 - fullness_reduction_percent / 100), 0.1, 1.0)
ExpectedThinnedFullness ==
    NearestInRange(
        FMul(IF args.fullness_override # None THEN args.fullness_override[1]
             ELSE Species.default_fullness,
             FSub(One, FDiv(args.fullness_reduction_percent, Hundred))))

\* C22: build_sf_vs_crown_reduction_curve returns exactly 9 points, at
\* percents evenly spaced from 0 to maxReduction (8 * r_i is i * maxReduction
\* as the float product gives it, r_0 = 0 and r_8 = maxReduction), where
\* maxReduction = clamp(base_reduction_percent, or 20 when it is zero, 5, 40)
\* lies in [5, 40]; the point at r is calculate_single with crown diameter
\* crown_diameter_m * (1 - r / 100) and, at every sample, the same fullness
\* clamp(fullness_base * (1 - fullness_reduction_percent / 100), 0.1, 1.0).
C22_NineEvenReductions ==
    CrownCurveBuilt =>
        /\ Len(crown_curve.xs) = 9 /\ Len(crown_curve.ys) = 9
        /\ crown_curve.xs[1] = Zero
        /\ crown_curve.xs[9] = ExpectedMaxReduction
        /\ Ge(crown_curve.xs[9], Five) /\ Le(crown_curve.xs[9], Forty)
        /\ \A i \in 1..9 :
              /\ FMul(crown_curve.xs[i], FromInt(8)) =
                     FMul(ExpectedMaxReduction, FromInt(i - 1))
              /\ crown_curve.ys[i] =
                     WithCrownAndFullness(
                         FMul(args.crown_diameter_m,
                              FSub(One, FDiv(crown_curve.xs[i], Hundred))),
                         Some(ExpectedThinnedFullness)).safety_factor

\* A base reduction of zero with a thinning: the sweep ends at 20 % and the
\* safety factor rises along it.
C22_Witness ==
    /\ CrownCurveBuilt /\ ValidInput
    /\ args.base_reduction_percent = Zero
    /\ args.fullness_reduction_percent # Zero
    /\ Len(crown_curve.xs) = 9 /\ crown_curve.xs[9] = Twenty
    /\ Lt(crown_curve.ys[1], crown_curve.ys[9])

----------------------------------------------------------------------------
----------------------------------------------------------------------------
\* The consecutive pairs of samples of the residual-wall curve with SF
\* strictly below 1 at one sample and strictly above 1 at the other.
StrictCrossings ==
    {i \in 1..(Len(rw_curve.ys) - 1) :
        \/ Lt(rw_curve.ys[i], One) /\ Gt(rw_curve.ys[i + 1], One)
        \/ Gt(rw_curve.ys[i], One) /\ Lt(rw_curve.ys[i + 1], One)}

\* C25: for every valid scenario the safety factors of the residual-wall
\* curve are strictly increasing in the residual-wall percent, so at most
\* one consecutive pair of samples has SF strictly below 1 on one side and
\* strictly above 1 on the other, and the first bracketing pair is the only
\* crossing of SF = 1: every pair that brackets SF = 1 gives the critical
\* percent of the first one (a second pair brackets only by sharing a sample
\* with SF = 1 exactly), and a pair that crosses strictly is the only
\* bracketing pair.
C25_StrictlyIncreasingOneCrossing ==
    RwCurveBuilt /\ ValidInput =>
        /\ ~rw_curve.raised /\ Len(rw_curve.ys) = RwSteps
        /\ \A i \in 1..(RwSteps - 1) :
              /\ Lt(rw_curve.xs[i], rw_curve.xs[i + 1])
              /\ Lt(rw_curve.ys[i], rw_curve.ys[i + 1])
        /\ Cardinality(StrictCrossings) <= 1
        /\ \A i \in BracketingPairs : rw_curve.critical_rw = Some(PercentAtOneOfPair(i))
        /\ \A i \in StrictCrossings : BracketingPairs = {i}

\* A tree that fails as a thin shell and stands as a solid trunk: the curve
\* crosses SF = 1 strictly inside one pair of samples, and its last two
\* samples, 90 % and 100 % residual wall, differ.
C25_Witness ==
    /\ RwCurveBuilt /\ ValidInput /\ ~rw_curve.raised
    /\ Len(rw_curve.ys) = RwSteps
    /\ Lt(rw_curve.ys[1], One) /\ Gt(rw_curve.ys[RwSteps], One)
    /\ Cardinality(StrictCrossings) = 1
    /\ StrictCrossings = BracketingPairs
    /\ Lt(rw_curve.ys[RwSteps - 1], rw_curve.ys[RwSteps])
    /\ rw_curve.critical_rw # None

----------------------------------------------------------------------------
\* compute_defect_strength_factor of a flag combination, and the scenario's
\* call again with another k_defect.
KOf(flags) ==
    compute_defect_strength_factor(flags.bracket_fungi, flags.cavity_decay,
                                   flags.cracks, flags.basal_decay, flags.union)

WithDefect(k) ==
    calculate_single(Species, args.dbh_cm, args.height_m, args.crown_diameter_m,
                     args.design_wind_ms, args.cavity_inner_cm,
                     args.fullness_override, args.site_factor, k)

\* more has every flag of fewer and at least one more.
Adds(more, fewer) ==
    /\ more # fewer
    /\ \A name \in DOMAIN fewer : fewer[name] => more[name]

\* r differs from the scenario's result by a strictly smaller, finite safety
\* factor alone.
LowersSafetyOnly(r) ==
    /\ ~r.raised
    /\ IsFinite(r.safety_factor) /\ Lt(r.safety_factor, result.safety_factor)
    /\ r.bending_stress_mpa = result.bending_stress_mpa
    /\ r.q_pa = result.q_pa
    /\ r.wind_force_n = result.wind_force_n
    /\ r.bending_moment_nm = result.bending_moment_nm

\* C26: for any two flag combinations where the second has every flag of
\* the first plus at least one more, compute_defect_strength_factor of the
\* second is strictly smaller; the safety factor is proportional to k_defect
\* (SF(k) is k * SF(1) up to rounding), and calculate_single with the second
\* k returns a strictly smaller finite safety factor with bending stress,
\* wind force and moment unchanged.
C26_MoreDefectsLowerSafety ==
    (pc = "calc" /\ ValidInput) =>
        /\ k_defect = KOf(args.flags)
        /\ Near(result.safety_factor, FMul(k_defect, WithDefect(One).safety_factor))
        /\ \A more \in AllFlags : Adds(more, args.flags) => Lt(KOf(more), k_defect)
        /\ \A k \in {KOf(more) : more \in {f \in AllFlags : Adds(f, args.flags)}} :
              LowersSafetyOnly(WithDefect(k))

\* A tree with some defects observed and others still to be added.
C26_Witness ==
    /\ pc = "calc" /\ ValidInput /\ IsFinite(result.safety_factor)
    /\ args.flags.bracket_fungi /\ args.flags.cavity_decay /\ args.flags.basal_decay
    /\ ~args.flags.union
    /\ Lt(k_defect, One)
    /\ \E more \in AllFlags :
          /\ Adds(more, args.flags)
          /\ Lt(KOf(more), k_defect)
          /\ Lt(WithDefect(KOf(more)).safety_factor, result.safety_factor)

----------------------------------------------------------------------------
\* Text typed by the user and shown to the user

\* A text is a sequence of characters, each a string of length 1.
DIGITS == <<"0", "1", "2", "3", "4", "5", "6", "7", "8", "9">>

IsDigit(c) == \E d \in 1..10 : DIGITS[d] = c
DigitValue(c) == (CHOOSE d \in 1..10 : DIGITS[d] = c) - 1

\* str.replace(",", ".")
ReplaceCommas(txt) == [i \in 1..Len(txt) |-> IF txt[i] = "," THEN "." ELSE txt[i]]

\* str.strip() of a text whose only whitespace is the blank.
RECURSIVE LStrip(_)
LStrip(txt) == IF txt # <<>> /\ Head(txt) = " " THEN LStrip(Tail(txt)) ELSE txt

RECURSIVE RStrip(_)
RStrip(txt) ==
    IF txt # <<>> /\ txt[Len(txt)] = " " THEN RStrip(SubSeq(txt, 1, Len(txt) - 1))
    ELSE txt

Strip(txt) == RStrip(LStrip(txt))

\* The text after an optional sign, and the sign.
Unsigned(txt) == IF txt # <<>> /\ Head(txt) \in {"+", "-"} THEN Tail(txt) ELSE txt
SignOf(txt) == IF txt # <<>> /\ Head(txt) = "-" THEN -1 ELSE 1

\* digits [ "." digits ] with at least one digit.
IsDecimal(txt) ==
    /\ \A i \in 1..Len(txt) : IsDigit(txt[i]) \/ txt[i] = "."
    /\ \E i \in 1..Len(txt) : IsDigit(txt[i])
    /\ Cardinality({i \in 1..Len(txt) : txt[i] = "."}) <= 1

\* The integer written by the digits of txt, its point ignored.
RECURSIVE DigitsValue(_, _)
DigitsValue(txt, acc) ==
    IF txt = <<>> THEN acc
    ELSE DigitsValue(Tail(txt), IF IsDigit(Head(txt)) THEN 10 * acc + DigitValue(Head(txt))
                                ELSE acc)

\* The number of digits after the point.
RECURSIVE FractionDigits(_)
FractionDigits(txt) ==
    IF txt = <<>> THEN 0
    ELSE IF Head(txt) = "." THEN Len(txt) - 1
    ELSE FractionDigits(Tail(txt))

\* What float(text) gives: a value, or ValueError.
ValueError == [error |-> TRUE, value |-> Zero]
Value(v) == [error |-> FALSE, value |-> v]

\* The float nearest a decimal numeral (the texts of the model have
\* fewer digits than a significand holds, so both roundings are exact
\* or single).
DecimalValue(sign, txt) ==
    Value(FDiv(FromInt(sign * DigitsValue(txt, 0)), FromInt(10^FractionDigits(txt))))

\* float(s) of a text stripped of blanks: a signed decimal numeral or nan
\* (texts with an exponent, an underscore, inf or capitals are not among
\* the model's).
FloatOfStripped(txt) ==
    IF Unsigned(txt) = <<"n", "a", "n">> THEN Value(NaN)
    ELSE IF IsDecimal(Unsigned(txt)) THEN DecimalValue(SignOf(txt), Unsigned(txt))
    ELSE ValueError

\* float(txt.replace(",", "."))
ParseFloat(txt) == FloatOfStripped(Strip(ReplaceCommas(txt)))

\* The decimal digits of n >= 0, at least width of them.
RECURSIVE IntText(_, _)
IntText(n, width) ==
    IF n < 10 /\ width <= 1 THEN <<DIGITS[n + 1]>>
    ELSE Append(IntText(n \div 10, width - 1), DIGITS[(n % 10) + 1])

\* n / d rounded to the nearest integer, ties to even.
RoundHalfEven(n, d) ==
    IF 2 * (n % d) > d \/ (2 * (n % d) = d /\ (n \div d) % 2 = 1)
    THEN n \div d + 1 ELSE n \div d

\* round(|a| * 10^k) for a finite a, exactly.
Scaled(a, k) ==
    IF a.e >= 0 THEN Abs(a.m) * 2^a.e * 10^k
    ELSE IF a.e < -30 THEN 0
    ELSE RoundHalfEven(Abs(a.m) * 10^k, 2^(-a.e))

\* The digits of n with a point before the last k.
WithPoint(txt, k) ==
    IF k = 0 THEN txt
    ELSE SubSeq(txt, 1, Len(txt) - k) \o <<".">> \o SubSeq(txt, Len(txt) - k + 1, Len(txt))

\* f"{a:.kf}"
FormatFixed(a, k) ==
    IF IsNaN(a) THEN <<"n", "a", "n">>
    ELSE IF a.inf THEN <<"i", "n", "f">>
    ELSE (IF a.m < 0 THEN <<"-">> ELSE <<>>) \o WithPoint(IntText(Scaled(a, k), k + 1), k)

----------------------------------------------------------------------------
\* What both collectors do with the inputs (tools/aus_tree_calc_gui.py,
\* _on_run; tools/aus_tree_calc_standalone.py, main)

\* The arguments the engine is called with; species is the preset itself.
EngineArgs(species, dbh, height, crown, wind, cavity, fullness_override, site_factor, k) ==
    [species |-> species, dbh_cm |-> dbh, height_m |-> height, crown_diameter_m |-> crown,
     design_wind_ms |-> wind, cavity_inner_cm |-> cavity,
     fullness_override |-> fullness_override, site_factor |-> site_factor,
     k_defect |-> k]

\* calculate_single(species, dbh_cm, ..., k_defect) on the collected arguments.
CalculateOn(a) ==
    calculate_single(a.species, a.dbh_cm, a.height_m, a.crown_diameter_m,
                     a.design_wind_ms, a.cavity_inner_cm, a.fullness_override,
                     a.site_factor, a.k_defect)

EstimateOn(a) ==
    estimate_wind_to_failure(a.species, a.dbh_cm, a.height_m, a.crown_diameter_m,
                             a.design_wind_ms, a.cavity_inner_cm, a.fullness_override,
                             a.site_factor, a.k_defect)

WindCurveOn(a, wtf) ==
    build_sf_vs_wind_curve(a.species, a.dbh_cm, a.height_m, a.crown_diameter_m,
                           a.design_wind_ms, a.cavity_inner_cm, a.fullness_override,
                           a.site_factor, a.k_defect, wtf)

RwCurveOn(a) ==
    build_sf_vs_residual_wall_curve(a.species, a.dbh_cm, a.height_m, a.crown_diameter_m,
                                    a.design_wind_ms, a.fullness_override,
                                    a.site_factor, a.k_defect)

CrownCurveOn(a, crown_red_base, fullness_red) ==
    build_sf_vs_crown_reduction_curve(a.species, a.dbh_cm, a.height_m,
                                      a.crown_diameter_m, a.design_wind_ms,
                                      a.cavity_inner_cm, a.fullness_override,
                                      a.site_factor, a.k_defect, crown_red_base,
                                      fullness_red)

\* Mutant of Evaluated: a stored result used again.
EvaluatedFromLast(res, wtf, wind, rw) ==
    [raised |-> res.raised \/ wind.raised \/ rw.raised,
     result |-> IF last_result # None THEN last_result[1] ELSE res,
     wind_to_failure |-> wtf, wind_curve |-> wind, rw_curve |-> rw]

\* What the calls up to the residual-wall curve returned; raised when one of
\* them ended in ZeroDivisionError.
Evaluated(res, wtf, wind, rw) ==
    [raised |-> res.raised \/ wind.raised \/ rw.raised, result |-> res,
     wind_to_failure |-> wtf, wind_curve |-> wind, rw_curve |-> rw]

EvaluateWith(a, wtf) == Evaluated(CalculateOn(a), wtf, WindCurveOn(a, wtf), RwCurveOn(a))

\* result, wind_to_failure, the wind curve and the residual-wall curve, in
\* the order both collectors call for them.
Evaluate(a) == EvaluateWith(a, EstimateOn(a))

\* res_wall_pct = residual_wall_fraction(dbh, cavity) * 100.0
ResidualWallPercent(a) == FMul(residual_wall_fraction(a.dbh_cm, a.cavity_inner_cm), Hundred)

\* What build_word_report_from_python is given: the report file is modelled
\* by the data it is written from.
Report(a, ev, crown, res_wall_pct) ==
    [inputs |-> a, result |-> ev.result, wind_to_failure |-> ev.wind_to_failure,
     current_residual_percent |-> res_wall_pct,
     critical_residual_percent |-> ev.rw_curve.critical_rw,
     critical_wall_thickness_cm |-> ev.rw_curve.critical_wall_cm,
     sf_vs_wind |-> [x |-> ev.wind_curve.xs, y |-> ev.wind_curve.ys],
     sf_vs_residual_wall |-> [x |-> ev.rw_curve.xs, y |-> ev.rw_curve.ys],
     sf_vs_crown_reduction |-> [x |-> crown.xs, y |-> crown.ys]]

\* The numbers of the summary, as the texts shown.
Summary(sf, sigma_mpa, wtf, res_wall_pct, crit_rw, crit_wall) ==
    [safety_factor |-> sf, bending_stress |-> FormatFixed(sigma_mpa, 2),
     wind_to_failure |-> IF wtf # None /\ IsFinite(wtf[1])
                         THEN Some(FormatFixed(wtf[1], 1)) ELSE None,
     residual_wall |-> res_wall_pct,
     critical |-> IF crit_rw # None /\ crit_wall # None
                  THEN <<FormatFixed(crit_rw[1], 0), FormatFixed(crit_wall[1], 1)>>
                  ELSE None]

\* A call of calculate_single by a collector: its arguments, what it
\* returned, and _last_result as the call was made.
Call(a, res) == [args |-> a, result |-> res, stored |-> last_result]

\* The two latest calls.
Logged(a, res) ==
    IF log = <<>> THEN <<Call(a, res)>> ELSE <<log[Len(log)], Call(a, res)>>

----------------------------------------------------------------------------
\* The form (tools/aus_tree_calc_gui.py, class AusTreeCalcGUI)

\* The most inputs typed or changed in a behaviour.
MaxEdits == 2

\* _build_state: the form's variables as the window opens.  The tree label,
\* the location and the free-text defect note are not modelled.
FormDefaults ==
    [species |-> SPECIES_PRESETS[2].id,
     dbh |-> <<"5", "0">>, height |-> <<"1", "8">>, crown |-> <<"1", "0">>,
     cavity |-> <<>>, wind |-> <<"4", "0">>, site_factor |-> <<"1", ".", "0">>,
     use_fullness_override |-> FALSE, fullness |-> <<"0", ".", "9">>,
     flags |-> NoFlags,
     crown_reduction_base |-> <<"2", "0">>, fullness_reduction |-> <<"3", "0">>]

\* The entries of the form and the texts the user types into each.
Entries ==
    {"dbh", "height", "crown", "cavity", "wind", "site_factor", "fullness",
     "crown_reduction_base", "fullness_reduction"}

Typed(entry) ==
    CASE entry = "dbh" -> {<<"a", "b", "c">>, <<"n", "a", "n">>, <<"0">>, <<"1", "1", "5">>}
      [] entry = "height" -> {<<"1", "2", ",", "5">>}
      [] entry = "crown" -> {}
      [] entry = "cavity" -> {<<"a", "b", "c">>, <<"2", "0">>,
                              <<"1", "1", "4", ".", "9", "9", "9">>}
      [] entry = "wind" -> {}
      [] entry = "site_factor" -> {<<>>}
      [] entry = "fullness" -> {<<"1", ".", "5">>}
      [] entry = "crown_reduction_base" -> {<<"a", "b", "c">>}
      [] entry = "fullness_reduction" -> {}

\* The defect checkbuttons the user toggles, and the species selected.
Toggled == {"cracks"}
Selected == {SPECIES_PRESETS[3].id}

\* _get_species: the preset of the selected id, SPECIES_PRESETS[1] (the
\* second) if there is none.
_get_species(sid) ==
    IF \E i \in 1..Len(catalog) : catalog[i].id = sid
    THEN catalog[CHOOSE i \in 1..Len(catalog) :
                     catalog[i].id = sid /\ \A j \in 1..(i - 1) : catalog[j].id # sid]
    ELSE catalog[2]

\* _parse_float of an entry's text: the value, or None and the error
\* dialog shown.
Accepted(v) == [value |-> Some(v), shown |-> {}]
Rejected(name, complaint) == [value |-> None, shown |-> {<<name, complaint>>}]

ParseRequired(parsed, name) ==
    IF parsed.error THEN Rejected(name, "must be a number.")
    ELSE IF Le(parsed.value, Zero) THEN Rejected(name, "must be > 0.")
    ELSE Accepted(parsed.value)

_parse_float(value, name) == ParseRequired(ParseFloat(value), name)

\* _parse_optional_float: None for a blank text, a text that is no number
\* and a number <= 0, with no dialog.
OptionalFrom(parsed) ==
    IF parsed.error THEN None
    ELSE IF Le(parsed.value, Zero) THEN None
    ELSE Some(parsed.value)

_parse_optional_float(value) ==
    IF Strip(value) = <<>> THEN None ELSE OptionalFrom(ParseFloat(Strip(value)))

\* Lines 293-298: the override, if the box is ticked.  None with no dialog
\* when it is not; fullness_override = max(0.1, min(1.0, f)).
ParseOverride(f) ==
    IF ~f.use_fullness_override THEN Accepted(None)
    ELSE _parse_float(f.fullness, "Fullness override")

ClampOverride(f, parsed) ==
    IF ~f.use_fullness_override \/ parsed.value = None THEN None
    ELSE Some(FMax(FullnessMin, FMin(One, parsed.value[1])))

\* Lines 281-307 of _on_run: the parsed inputs, the dialogs shown, and
\* whether the handler returned before the calculation.  The five required
\* entries are all parsed before the first return, the two prunings before
\* the third.
Parsed(f, dbh, height, crown, wind, site_factor, override, red, thin) ==
    IF None \in {dbh.value, height.value, crown.value, wind.value, site_factor.value}
    THEN [returned |-> TRUE,
          shown |-> dbh.shown \cup height.shown \cup crown.shown \cup wind.shown
                    \cup site_factor.shown]
    ELSE IF f.use_fullness_override /\ override.value = None
    THEN [returned |-> TRUE, shown |-> override.shown]
    ELSE IF red.value = None \/ thin.value = None
    THEN [returned |-> TRUE, shown |-> red.shown \cup thin.shown]
    ELSE [returned |-> FALSE, shown |-> {},
          args |-> EngineArgs(_get_species(f.species), dbh.value[1], height.value[1],
                              crown.value[1], wind.value[1],
                              _parse_optional_float(f.cavity),
                              ClampOverride(f, override), site_factor.value[1],
                              compute_defect_strength_factor(f.flags.bracket_fungi,
                                  f.flags.cavity_decay, f.flags.cracks,
                                  f.flags.basal_decay, f.flags.union)),
          crown_red_base |-> red.value[1], fullness_red |-> thin.value[1]]

ParseForm(f) ==
    Parsed(f, _parse_float(f.dbh, "DBH"), _parse_float(f.height, "Height"),
           _parse_float(f.crown, "Crown diameter"),
           _parse_float(f.wind, "Design wind speed"),
           _parse_float(f.site_factor, "Site factor"),
           ParseOverride(f),
           _parse_float(f.crown_reduction_base, "Crown reduction (%)"),
           _parse_float(f.fullness_reduction, "Fullness reduction (%)"))

\* The engine's own variables while a collector runs: no scenario of Spec is
\* in progress.
NoScenario ==
    /\ args = [species |-> BaseSpecies, dbh_cm |-> BaseDbh, height_m |-> BaseHeight,
               crown_diameter_m |-> BaseCrown, design_wind_ms |-> BaseWind,
               cavity_inner_cm |-> None, fullness_override |-> None,
               site_factor |-> BaseSite, flags |-> NoFlags,
               base_reduction_percent |-> BaseReduction,
               fullness_reduction_percent |-> BaseThinning]
    /\ pc = "none"
    /\ EngineIdle

\* AusTreeCalcGUI(): the window opens on the defaults.
GuiInit ==
    /\ catalog = SPECIES_PRESETS
    /\ NoScenario
    /\ session = "gui"
    /\ prompt = "none"
    /\ form = FormDefaults
    /\ edits = 0
    /\ last_result = None /\ output = None /\ report = None
    /\ shown = {} /\ invoked = None /\ log = <<>>

\* The user types a text into an entry (the entry's StringVar is set).
TypeInto ==
    /\ session = "gui" /\ edits < MaxEdits
    /\ \E entry \in Entries : \E txt \in Typed(entry) :
          form' = [form EXCEPT ![entry] = txt]
    /\ edits' = edits + 1
    /\ UNCHANGED <<catalog, engine, session, prompt, last_result, output, report,
                   shown, invoked, log>>

\* The user ticks or unticks "override fullness".
ToggleOverride ==
    /\ session = "gui" /\ edits < MaxEdits
    /\ form' = [form EXCEPT !.use_fullness_override = ~@]
    /\ edits' = edits + 1
    /\ UNCHANGED <<catalog, engine, session, prompt, last_result, output, report,
                   shown, invoked, log>>

\* The user ticks or unticks a defect.
ToggleDefect ==
    /\ session = "gui" /\ edits < MaxEdits
    /\ \E flag \in Toggled : form' = [form EXCEPT !.flags[flag] = ~@]
    /\ edits' = edits + 1
    /\ UNCHANGED <<catalog, engine, session, prompt, last_result, output, report,
                   shown, invoked, log>>

\* Mutant of _on_species_change: the number in the fullness entry stored in
\* the preset selected.
_on_species_change_storing ==
    /\ session = "gui" /\ edits < MaxEdits
    /\ \E sid \in Selected :
          /\ form' = [form EXCEPT !.species = sid]
          /\ catalog' = [i \in 1..Len(catalog) |->
                            IF catalog[i].id = sid /\ ~ParseFloat(form.fullness).error
                            THEN [catalog[i] EXCEPT !.default_fullness =
                                                        ParseFloat(form.fullness).value]
                            ELSE catalog[i]]
    /\ edits' = edits + 1
    /\ UNCHANGED <<engine, session, prompt, last_result, output, report,
                   shown, invoked, log>>

\* The user selects a species in the combobox, which sets species_var and
\* calls _on_species_change: the fullness entry shows the species' default,
\* f"{sp.default_fullness:.2f}", unless the override is ticked.  (The
\* description label is not modelled.)
_on_species_change ==
    /\ session = "gui" /\ edits < MaxEdits
    /\ \E sid \in Selected :
          form' = [form EXCEPT !.species = sid,
                               !.fullness = IF form.use_fullness_override THEN @
                                            ELSE FormatFixed(_get_species(sid).default_fullness, 2)]
    /\ edits' = edits + 1
    /\ UNCHANGED <<catalog, engine, session, prompt, last_result, output, report,
                   shown, invoked, log>>

\* Lines 432-458: the output text and the dialog of a completed run (the
\* text "SF: " followed by the infinity sign is written infinity).
Completed == {<<"AusTreeCalc", "Calculation complete. Word report written to:">>}

GuiSummary(ev, res_wall_pct) ==
    Summary(IF IsFinite(ev.result.safety_factor)
            THEN FormatFixed(ev.result.safety_factor, 2) ELSE <<"i", "n", "f", "i", "n", "i", "t", "y">>,
            ev.result.bending_stress_mpa, ev.wind_to_failure,
            FormatFixed(res_wall_pct, 0), ev.rw_curve.critical_rw,
            ev.rw_curve.critical_wall_cm)

\* Lines 319-458 of _on_run, on the parsed inputs p: ev and crown are what
\* the engine returned.  A ZeroDivisionError of calculate_single leaves the
\* handler before _last_result is assigned, one of a curve builder after;
\* either way nothing is written or shown.
RunOn(p, ev, crown, res_wall_pct) ==
    /\ invoked' = Some(p.args)
    /\ last_result' = IF ev.result.raised THEN last_result ELSE Some(ev.result)
    /\ log' = IF ev.result.raised THEN log ELSE Logged(p.args, ev.result)
    /\ shown' = IF ev.raised \/ crown.raised THEN {} ELSE Completed
    /\ report' = IF ev.raised \/ crown.raised THEN report
                 ELSE Some(Report(p.args, ev, crown, res_wall_pct))
    /\ output' = IF ev.raised \/ crown.raised THEN output
                 ELSE Some(GuiSummary(ev, res_wall_pct))

\* The user presses "Run": the whole of _on_run.
_on_run ==
    /\ session = "gui"
    /\ \E p \in {ParseForm(form)} :
          IF p.returned
          THEN /\ shown' = p.shown
               /\ invoked' = None
               /\ UNCHANGED <<last_result, output, report, log>>
          ELSE \E ev \in {Evaluate(p.args)} :
               \E crown \in {CrownCurveOn(p.args, p.crown_red_base, p.fullness_red)} :
               \E res_wall_pct \in {ResidualWallPercent(p.args)} :
                   RunOn(p, ev, crown, res_wall_pct)
    /\ UNCHANGED <<catalog, engine, session, prompt, form, edits>>

----------------------------------------------------------------------------
\* The prompts (tools/aus_tree_calc_standalone.py, main)

\* main's locals before the first prompt.  The tree label, the location
\* and the free-text defect note are not modelled.
Locals ==
    [species |-> 0, dbh_cm |-> None, height_m |-> None, crown_diameter_m |-> None,
     cavity_inner_cm |-> None, design_wind_ms |-> None, site_factor |-> None,
     use_fullness_override |-> FALSE, fullness_override |-> None,
     flags |-> NoFlags, evaluated |-> None,
     crown_red_base |-> None, fullness_red |-> None]

\* The prompts of prompt_float and of prompt_yes_no, named for the local
\* each assigns.
FloatPrompts ==
    {"dbh_cm", "height_m", "crown_diameter_m", "design_wind_ms", "site_factor",
     "fullness_override", "crown_red_base", "fullness_red"}
YesNoPrompts ==
    {"use_fullness_override", "bracket_fungi", "cavity_decay", "cracks",
     "basal_decay", "union"}

\* The order of main: the prompt (or step) after p.
After(p, f) ==
    CASE p = "species" -> "dbh_cm"
      [] p = "dbh_cm" -> "height_m"
      [] p = "height_m" -> "crown_diameter_m"
      [] p = "crown_diameter_m" -> "cavity_inner_cm"
      [] p = "cavity_inner_cm" -> "design_wind_ms"
      [] p = "design_wind_ms" -> "site_factor"
      [] p = "site_factor" -> "use_fullness_override"
      [] p = "use_fullness_override" ->
            IF f.use_fullness_override THEN "fullness_override" ELSE "bracket_fungi"
      [] p = "fullness_override" -> "bracket_fungi"
      [] p = "bracket_fungi" -> "cavity_decay"
      [] p = "cavity_decay" -> "cracks"
      [] p = "cracks" -> "basal_decay"
      [] p = "basal_decay" -> "union"
      [] p = "union" -> "calculate"
      [] p = "crown_red_base" -> "fullness_red"
      [] p = "fullness_red" -> "report"

\* The default of a prompt_float call.
Default(p, f) ==
    CASE p = "dbh_cm" -> FromInt(50)
      [] p = "height_m" -> FromInt(18)
      [] p = "crown_diameter_m" -> FromInt(10)
      [] p = "design_wind_ms" -> FromInt(40)
      [] p = "site_factor" -> One
      [] p = "fullness_override" -> catalog[f.species].default_fullness
      [] p = "crown_red_base" -> FromInt(20)
      [] p = "fullness_red" -> FromInt(30)

\* The lines the user types at a prompt, besides the empty line.
Answers(p) ==
    CASE p = "species" -> {<<"3">>, <<"9">>, <<"x">>}
      [] p = "dbh_cm" -> {<<"a", "b", "c">>, <<"n", "a", "n">>, <<"0">>}
      [] p = "height_m" -> {<<"1", "2", ",", "5">>}
      [] p = "crown_diameter_m" -> {<<" ", "8">>}
      [] p = "cavity_inner_cm" -> {<<"a", "b", "c">>, <<"2", "0">>}
      [] p = "use_fullness_override" -> {<<"y">>}
      [] p = "fullness_override" -> {<<"1", ".", "5">>}
      [] p = "cracks" -> {<<"y", "e", "s">>, <<"x">>}
      [] p = "crown_red_base" -> {<<"a", "b", "c">>}
      [] OTHER -> {}

\* int(txt) of a stripped text: an optionally signed run of digits.
IntOfStripped(txt) ==
    IF Unsigned(txt) # <<>> /\ \A i \in 1..Len(Unsigned(txt)) : IsDigit(Unsigned(txt)[i])
    THEN [error |-> FALSE, value |-> SignOf(txt) * DigitsValue(Unsigned(txt), 0)]
    ELSE [error |-> TRUE, value |-> 0]

\* One pass of choose_species' loop on the stripped line txt: the index
\* (1-based) of the preset returned, or None and the line printed.
ChosenFrom(idx) ==
    IF idx.error THEN Rejected("species", "Please enter a number from the list.")
    ELSE IF 1 <= idx.value /\ idx.value <= Len(catalog) THEN Accepted(idx.value)
    ELSE Rejected("species", "Please choose a valid number.")

Chosen(txt) == IF txt = <<>> THEN Accepted(2) ELSE ChosenFrom(IntOfStripped(txt))

\* One pass of prompt_float's loop on the stripped line txt: the value
\* returned, or None and the line printed.
FloatFrom(p, parsed) ==
    IF parsed.error THEN Rejected(p, "Please enter a number.")
    ELSE IF Le(parsed.value, Zero) THEN Rejected(p, "Please enter a value greater than zero.")
    ELSE Accepted(parsed.value)

Float(p, txt, default) ==
    IF txt = <<>> THEN Accepted(default) ELSE FloatFrom(p, ParseFloat(txt))

\* prompt_optional_float on the stripped line txt: the value returned and
\* the line printed.
OptionalFloatFrom(parsed) ==
    IF parsed.error
    THEN [value |-> None, shown |-> {<<"cavity_inner_cm", "Could not parse number, treating as none.">>}]
    ELSE [value |-> IF Le(parsed.value, Zero) THEN None ELSE Some(parsed.value), shown |-> {}]

OptionalFloat(txt) ==
    IF txt = <<>> THEN [value |-> None, shown |-> {}] ELSE OptionalFloatFrom(ParseFloat(txt))

\* One pass of prompt_yes_no's loop on the stripped line txt (default False).
YesNo(p, txt) ==
    IF txt = <<>> THEN Accepted(FALSE)
    ELSE IF txt \in {<<"y">>, <<"y", "e", "s">>} THEN Accepted(TRUE)
    ELSE IF txt \in {<<"n">>, <<"n", "o">>} THEN Accepted(FALSE)
    ELSE Rejected(p, "Please answer y or n.")

\* python aus_tree_calc_standalone.py: main waits in choose_species.
CliInit ==
    /\ catalog = SPECIES_PRESETS
    /\ NoScenario
    /\ session = "cli"
    /\ prompt = "species"
    /\ form = Locals
    /\ edits = 0
    /\ last_result = None /\ output = None /\ report = None
    /\ shown = {} /\ invoked = None /\ log = <<>>

\* The user's line at a prompt: the empty line, or one of Answers, which
\* counts as an input typed.
Typing(txt) ==
    /\ txt \in {<<>>} \cup Answers(prompt)
    /\ txt # <<>> => edits < MaxEdits
    /\ edits' = IF txt = <<>> THEN edits ELSE edits + 1

\* The prompt's outcome: the loop comes round again on a rejected line, the
\* local is assigned and main goes on otherwise.
Answered(ans, assigned) ==
    /\ shown' = shown \cup ans.shown
    /\ form' = IF ans.value = None THEN form ELSE assigned
    /\ prompt' = IF ans.value = None THEN prompt ELSE After(prompt, assigned)

choose_species ==
    /\ session = "cli" /\ prompt = "species"
    /\ \E txt \in {<<>>} \cup Answers(prompt) :
          /\ Typing(txt)
          /\ \E ans \in {Chosen(Strip(txt))} :
                Answered(ans, [form EXCEPT !.species = IF ans.value = None THEN 0
                                                       ELSE ans.value[1]])
    /\ UNCHANGED <<catalog, engine, session, last_result, output, report, invoked, log>>

\* Lines 614-617: the override typed is brought into [0.1, 1.0].
Assigned(p, v) ==
    IF p = "fullness_override" THEN Some(LowerTo(RaiseTo(v, FullnessMin), One)) ELSE v

prompt_float ==
    /\ session = "cli" /\ prompt \in FloatPrompts
    /\ \E txt \in {<<>>} \cup Answers(prompt) :
          /\ Typing(txt)
          /\ \E ans \in {Float(prompt, Strip(txt), Default(prompt, form))} :
                Answered(ans, [form EXCEPT ![prompt] = IF ans.value = None THEN @
                                                      ELSE Assigned(prompt, ans.value[1])])
    /\ UNCHANGED <<catalog, engine, session, last_result, output, report, invoked, log>>

\* The cavity: None is a value here, and main goes on whatever was typed.
prompt_optional_float ==
    /\ session = "cli" /\ prompt = "cavity_inner_cm"
    /\ \E txt \in {<<>>} \cup Answers(prompt) :
          /\ Typing(txt)
          /\ \E ans \in {OptionalFloat(Strip(txt))} :
                /\ shown' = shown \cup ans.shown
                /\ form' = [form EXCEPT !.cavity_inner_cm = ans.value]
                /\ prompt' = After(prompt, form)
    /\ UNCHANGED <<catalog, engine, session, last_result, output, report, invoked, log>>

prompt_yes_no ==
    /\ session = "cli" /\ prompt \in YesNoPrompts
    /\ \E txt \in {<<>>} \cup Answers(prompt) :
          /\ Typing(txt)
          /\ \E ans \in {YesNo(prompt, Strip(txt))} :
                Answered(ans, IF ans.value = None THEN form
                              ELSE IF prompt = "use_fullness_override"
                              THEN [form EXCEPT !.use_fullness_override = ans.value[1]]
                              ELSE [form EXCEPT !.flags[prompt] = ans.value[1]])
    /\ UNCHANGED <<catalog, engine, session, last_result, output, report, invoked, log>>

\* The arguments main calls the engine with (lines 627-646).
MainArgs(f) ==
    EngineArgs(catalog[f.species], f.dbh_cm, f.height_m, f.crown_diameter_m,
               f.design_wind_ms, f.cavity_inner_cm, f.fullness_override,
               f.site_factor,
               compute_defect_strength_factor(f.flags.bracket_fungi, f.flags.cavity_decay,
                                              f.flags.cracks, f.flags.basal_decay,
                                              f.flags.union))

\* Lines 627-683: compute_defect_strength_factor, calculate_single,
\* estimate_wind_to_failure and the first two curves.  A ZeroDivisionError
\* ends main with a traceback.
AfterCalculation(a, ev) ==
    /\ invoked' = Some(a)
    /\ log' = IF ev.result.raised THEN log ELSE Logged(a, ev.result)
    /\ form' = [form EXCEPT !.evaluated = IF ev.raised THEN None ELSE Some(ev)]
    /\ prompt' = IF ev.raised THEN "crashed" ELSE "crown_red_base"

MainCalculate ==
    /\ session = "cli" /\ prompt = "calculate"
    /\ \E a \in {MainArgs(form)} : \E ev \in {Evaluate(a)} : AfterCalculation(a, ev)
    /\ UNCHANGED <<catalog, engine, session, edits, last_result, output, report, shown>>

\* Lines 705-717: the summary printed, safety factor as f"{sf:.2f}".
CliSummary(ev, res_wall_pct) ==
    Summary(FormatFixed(ev.result.safety_factor, 2),
            ev.result.bending_stress_mpa, ev.wind_to_failure,
            FormatFixed(res_wall_pct, 0), ev.rw_curve.critical_rw,
            ev.rw_curve.critical_wall_cm)

\* Lines 690-770: the crown-reduction curve, the summary and the report.
Reported(a, ev, crown, res_wall_pct) ==
    /\ output' = IF crown.raised THEN output ELSE Some(CliSummary(ev, res_wall_pct))
    /\ report' = IF crown.raised THEN report ELSE Some(Report(a, ev, crown, res_wall_pct))
    /\ prompt' = IF crown.raised THEN "crashed" ELSE "done"

MainReport ==
    /\ session = "cli" /\ prompt = "report"
    /\ \E a \in {MainArgs(form)} :
       \E crown \in {CrownCurveOn(a, form.crown_red_base, form.fullness_red)} :
       \E res_wall_pct \in {ResidualWallPercent(a)} :
           Reported(a, form.evaluated[1], crown, res_wall_pct)
    /\ UNCHANGED <<catalog, engine, session, form, edits, last_result, invoked, log,
                   shown>>

----------------------------------------------------------------------------
\* Both collectors

CollectInit == GuiInit \/ CliInit

CollectNext ==
    \/ TypeInto
    \/ ToggleOverride
    \/ ToggleDefect
    \/ _on_species_change
    \/ _on_run
    \/ choose_species
    \/ prompt_float
    \/ prompt_optional_float
    \/ prompt_yes_no
    \/ MainCalculate
    \/ MainReport

Collect == CollectInit /\ [][CollectNext]_vars

----------------------------------------------------------------------------
\* C13: the catalog SPECIES_PRESETS has the entries and the field values of
\* process start after any sequence of Run and species-change events of the
\* form, and of prompts and engine calls of main.
C13_CatalogNeverMutated == catalog = SPECIES_PRESETS

\* A report written for a species selected in the combobox, from every
\* engine function.
C13_Witness ==
    /\ session = "gui" /\ report # None /\ form.species = SPECIES_PRESETS[3].id
    /\ report[1].inputs.species = SPECIES_PRESETS[3]
    /\ Len(report[1].sf_vs_crown_reduction.x) = 9
    /\ catalog = SPECIES_PRESETS

----------------------------------------------------------------------------
----------------------------------------------------------------------------
\* The entries _on_run reads as numbers (the fullness entry only when the
\* override is ticked), and whether one of them holds a text that is
\* neither blank nor a number.
NumericEntries(f) ==
    (Entries \ {"fullness"}) \cup (IF f.use_fullness_override THEN {"fullness"} ELSE {})

NonNumeric(txt) == Strip(txt) # <<>> /\ ParseFloat(txt).error

\* C15 as stated: a Run of the form with a non-numeric text in a numeric
\* entry, the cavity included, shows an error and calls no engine function;
\* a run of main that reported a non-numeric cavity calls no engine function.
C15_NonNumericNeverReachesEngine ==
    /\ [][(session = "gui" /\ edits' = edits
               /\ \E entry \in NumericEntries(form) : NonNumeric(form[entry]))
           => (invoked' = None /\ shown' # {} /\ shown' # Completed)]_vars
    /\ [](session = "cli"
           /\ <<"cavity_inner_cm", "Could not parse number, treating as none.">> \in shown
           => invoked = None)

----------------------------------------------------------------------------
\* C16 as stated: the engine is called only with dbh, height, crown diameter,
\* design wind speed and site factor all > 0.
C16_RequiredValuesPositive ==
    invoked # None =>
        /\ Gt(invoked[1].dbh_cm, Zero)
        /\ Gt(invoked[1].height_m, Zero)
        /\ Gt(invoked[1].crown_diameter_m, Zero)
        /\ Gt(invoked[1].design_wind_ms, Zero)
        /\ Gt(invoked[1].site_factor, Zero)

----------------------------------------------------------------------------
\* The entries _on_run validates with _parse_float, and whether one of them
\* holds a text that _parse_float rejects: no number, or a number <= 0.
RequiredEntries(f) == NumericEntries(f) \ {"cavity"}

Invalid(parsed) == parsed.error \/ Le(parsed.value, Zero)

FailsValidation(f) == \E entry \in RequiredEntries(f) : Invalid(ParseFloat(f[entry]))

\* C23 as stated: after any sequence of clicks on Run, _last_result is None
\* until a run passes validation and then the CalcResult computed from the
\* inputs of the most recent run in which every field validated; a run in
\* which a required field fails validation leaves _last_result and the
\* output text unchanged and writes no report.
C23_LastResultOfLatestValidRun ==
    /\ [][(session = "gui" /\ edits' = edits) =>
              IF FailsValidation(form)
              THEN invoked' = None /\ UNCHANGED <<last_result, output, report>>
              ELSE /\ invoked' # None
                   /\ ~CalculateOn(invoked'[1]).raised
                   /\ last_result' = Some(CalculateOn(invoked'[1]))]_vars
    /\ [][(session = "gui" /\ edits' # edits) => last_result' = last_result]_vars

====
